---- MODULE Spec2Model ----
(***************************************************************************)
(* A model of parts of lego, each with its own specification:              *)
(*   SpecJQ, FairSpecJQ  the multithreaded job queue (src/jobqueue.c)      *)
(*   SpecSS, SpecSC      the stage schedule (src/simsched.c), with one     *)
(*                       caller and with concurrent callers                *)
(*   SpecPN              construction of the population network            *)
(*                       (src/popnode.c, src/segment.c)                    *)
(*   SpecFE              feasibility of parameters and the cost function   *)
(*   SpecRP              the split of replicates among tasks               *)
(*   SpecCO, FairSpecCO  the coalescent simulation (GPTree_simulate)       *)
(*   SpecDU              GPTree_dup (src/gptree.c)                         *)
(*   SpecBM              the weights of booma (src/booma.c)                *)
(* The variables of the other parts stay at their initial values.          *)
(***************************************************************************)
EXTENDS Integers, Sequences, FiniteSets, TLC

(***************************************************************************)
(* Bounds of the model.                                                    *)
(***************************************************************************)
MaxThreads == 2   \* largest value of JobQueue.maxThreads explored
MaxJobs == 2      \* number of calls of JobQueue_addJob explored
MaxStages == 3    \* number of calls of SimSched_append explored
MaxNext == 4      \* number of calls of SimSched_next explored
NNodes == 3       \* number of PopNode objects in the NodeStore
NTimes == 2       \* number of time parameters a start pointer can refer to
MaxTime == 1      \* time parameters take values 0..MaxTime
MaxOps == 2       \* number of calls of PopNode_addChild / PopNode_mix explored

Workers == 1..MaxThreads
Jobs == 1..MaxJobs

\* Owner of the mutex jq->lock: a worker, the main thread, or nobody.
MainId == 0

\* The NULL pointer.
NULL == 0
NoOwner == -1

VARIABLES
    \* ---- struct JobQueue ----
    todo,           \* list of jobs, head first
    acceptingJobs,  \* false => don't wait for work
    maxThreads,     \* maximum number of threads
    nThreads,       \* current number of threads
    idle,           \* number of idle threads
    lock,           \* owner of jq->lock
    wakeWorkerQ,    \* threads blocked in pthread_cond_wait(&jq->wakeWorker)
    hasTS,          \* jq->ThreadState_new != NULL
    \* ---- threads ----
    mpc,            \* position of the main thread
    wpc,            \* position of each worker thread
    job,            \* threadfun's local variable job (0: none)
    threadState,    \* threadfun's local variable threadState (0: NULL)
    \* ---- history of the run ----
    nSubmitted,     \* number of jobs pushed by JobQueue_addJob
    popCount,       \* how often each job was removed from the list
    execCount,      \* how often jobfun was called for each job
    tsPassed,       \* the threadState values each worker passed to jobfun
    tsMade,         \* calls of ThreadState_new by each worker
    tsFreed,        \* calls of ThreadState_free by each worker
    lastPop,        \* <<job removed, earliest job then in the list>> of the last pop
    \* ---- struct SimSched and the history of its calls ----
    list,           \* the stages, head first, each <<nOptItr, nSimReps>>
    appended,       \* every stage given to SimSched_append, in call order
    nNext,          \* number of calls of SimSched_next
    nextRet,        \* return value of the last SimSched_next (-1: none yet)
    nextPre,        \* number of stages before the last SimSched_next
    mixedOrder,     \* some SimSched_append came after a SimSched_next
    \* ---- PopNode network ----
    node,           \* the PopNode objects of the NodeStore
    par,            \* the values the parameter pointers refer to
    nOps,           \* number of addChild / mix calls so far
    lastStatus,     \* return value of the last addChild / mix call
    \* ---- feasibility and the cost function ----
    bnd,            \* GPTree.bnd, the Bounds of the evaluator
    feasLast,       \* <<bounds, result>> of the last PopNode_feasible call
    costRet,        \* what the last costFun returned ("none": no call yet)
    simStarted,     \* the last costFun called patprob
    \* ---- main of lego: replicates per task ----
    nreps,          \* the replicate count
    nTasks,         \* the number of tasks
    nTasksAsked,    \* history: nTasks before it is limited to nreps
    reps,           \* reps[j]: the replicates of task j
    qr,             \* the result of ldiv: <<quot, rem>>
    rj,             \* the loop index j
    rpc,            \* position of main
    \* ---- GPTree_simulate ----
    sndx,           \* SampNdx: the segment of each sample
    sample,         \* sample[i]: the lineages of segment i, nsamples long
    stack,          \* the nested calls of PopNode_coalesce
    atEnd,          \* t == end in the innermost PopNode_coalesce
    rootGene,       \* GPTree.rootGene
    rep,            \* the loop index of GPTree_simulate
    gpc,            \* position of GPTree_simulate
    visits,         \* history: how often PopNode_coalesce was entered per segment
    \* ---- GPTree_dup ----
    new,            \* the GPTree GPTree_dup returns (<<>>: none)
    dOff,           \* <<new->pnv - old->pnv, new->parstore - old->parstore>>
    dpc,            \* "start", "dupped" or "abort"
    \* ---- main of booma: the weights ----
    msc,            \* the badness values of the data set being read, per model
    wgt,            \* the array w, as numerators over wden
    wden,           \* the denominator of the weights
    nrows,          \* the number of data sets
    bi,             \* the loop index i
    bpc,            \* position of main
    \* ---- concurrent callers of a SimSched ----
    scLock,         \* owner of self->lock
    spc,            \* position of each caller
    sloc            \* per caller: the call's history and return value

jqVars == <<todo, acceptingJobs, maxThreads, nThreads, idle, lock,
            wakeWorkerQ, hasTS, mpc, wpc, job, threadState, nSubmitted,
            popCount, execCount, tsPassed, tsMade, tsFreed, lastPop>>
ssVars == <<list, appended, nNext, nextRet, nextPre, mixedOrder>>
pnVars == <<node, par, nOps, lastStatus>>
feVars == <<bnd, feasLast, costRet, simStarted>>
rpVars == <<nreps, nTasks, nTasksAsked, reps, qr, rj, rpc>>
coVars == <<sndx, sample, stack, atEnd, rootGene, rep, gpc, visits>>
duVars == <<new, dOff, dpc>>
bmVars == <<msc, wgt, wden, nrows, bi, bpc>>
scVars == <<scLock, spc, sloc>>
vars == <<jqVars, ssVars, pnVars, feVars, rpVars, coVars, duVars, bmVars,
          scVars>>

\* The variables of the other parts, which the steps of a part leave alone.
RestSS ==
    UNCHANGED <<jqVars, pnVars, feVars, rpVars, coVars, duVars, bmVars, scVars>>
RestPN ==
    UNCHANGED <<jqVars, ssVars, feVars, rpVars, coVars, duVars, bmVars, scVars>>
RestFE ==
    UNCHANGED <<jqVars, ssVars, rpVars, coVars, duVars, bmVars, scVars>>
RestRP ==
    UNCHANGED <<jqVars, ssVars, pnVars, feVars, coVars, duVars, bmVars, scVars>>
RestCO ==
    UNCHANGED <<jqVars, ssVars, pnVars, feVars, rpVars, duVars, bmVars, scVars>>

(***************************************************************************)
(*                      The job queue: src/jobqueue.c                      *)
(***************************************************************************)

\* The threads pthread_cond_signal(&jq->wakeWorker) may unblock: one of the
\* waiting threads, or none when no thread waits.
SignalWorker ==
    IF wakeWorkerQ = {} THEN {{}} ELSE {{w} : w \in wakeWorkerQ}

\* pthread_cond_broadcast(&jq->wakeWorker) unblocks every waiting thread.
BroadcastWorker == {wakeWorkerQ}

\* Positions of the workers after the threads of W were unblocked.
Unblock(W) == [w \in Workers |-> IF w \in W THEN "woken" ELSE wpc[w]]

\* A signal on wakeMain that never reaches the main thread.
SignalMain_lost(pc) == pc

\* pthread_cond_signal(&jq->wakeMain): the main thread leaves its wait, if
\* it is in one.
SignalMain(pc) == IF pc = "wj_wait" THEN "wj_woken" ELSE pc

\* job->next = jq->todo; jq->todo = job;
PushJob(j, q) == <<j>> \o q

\* job = jq->todo;
FrontJob(q) == Head(q)

\* A removal that leaves the head of the list in place.
RestJobs_keep(q) == q

\* jq->todo = jq->todo->next;
RestJobs(q) == Tail(q)

\* The thread pthread_create starts: the first one not yet started.
NewThread == CHOOSE w \in Workers : wpc[w] = "unborn" /\
                 \A v \in Workers : wpc[v] = "unborn" => w <= v

\* The job of the list q that was submitted first: jobs are numbered in the
\* order of submission.
Earliest(q) == CHOOSE j \in {q[i] : i \in 1..Len(q)} :
                   \A i \in 1..Len(q) : j <= q[i]

jqHistory == <<popCount, execCount, tsPassed, tsMade, tsFreed, lastPop>>

InitJQ ==
    /\ todo = <<>>
    /\ acceptingJobs = TRUE
    /\ maxThreads \in 0..MaxThreads
    /\ nThreads = 0
    /\ idle = 0
    /\ lock = NoOwner
    /\ wakeWorkerQ = {}
    /\ hasTS \in BOOLEAN
    /\ mpc = "ready"
    /\ wpc = [w \in Workers |-> "unborn"]
    /\ job = [w \in Workers |-> 0]
    /\ threadState = [w \in Workers |-> 0]
    /\ nSubmitted = 0
    /\ popCount = [j \in Jobs |-> 0]
    /\ execCount = [j \in Jobs |-> 0]
    /\ tsPassed = [w \in Workers |-> {}]
    /\ tsMade = [w \in Workers |-> 0]
    /\ tsFreed = [w \in Workers |-> 0]
    /\ lastPop = <<0, 0>>
    \* the other parts of the program are at rest
    /\ list = <<>>
    /\ appended = <<>>
    /\ nNext = 0
    /\ nextRet = -1
    /\ nextPre = 0
    /\ mixedOrder = FALSE
    /\ node = <<>>
    /\ par = <<>>
    /\ nOps = 0
    /\ lastStatus = "none"
    /\ bnd = [lo_twoN |-> 0, hi_twoN |-> 0, lo_t |-> 0, hi_t |-> 0]
    /\ feasLast = <<>>
    /\ costRet = "none"
    /\ simStarted = FALSE
    /\ nreps = 0
    /\ nTasks = 0
    /\ nTasksAsked = 0
    /\ reps = <<>>
    /\ qr = <<0, 0>>
    /\ rj = 0
    /\ rpc = "start"
    /\ sndx = <<>>
    /\ sample = <<>>
    /\ stack = <<>>
    /\ atEnd = FALSE
    /\ rootGene = {}
    /\ rep = 0
    /\ gpc = "start"
    /\ visits = <<>>
    /\ new = <<>>
    /\ dOff = <<0, 0>>
    /\ dpc = "start"
    /\ msc = <<>>
    /\ wgt = <<>>
    /\ wden = 1
    /\ nrows = 0
    /\ bi = 0
    /\ bpc = "start"
    /\ scLock = NoOwner
    /\ spc = <<>>
    /\ sloc = <<>>

\* ---- JobQueue_addJob ----

\* Entry of JobQueue_addJob: acceptingJobs is read before the lock is taken;
\* a closed queue ends the process with exit(1).
AddJob_entry ==
    /\ mpc = "ready"
    /\ nSubmitted < MaxJobs
    /\ mpc' = IF acceptingJobs THEN "aj_lock" ELSE "exited"
    /\ UNCHANGED <<todo, acceptingJobs, maxThreads, nThreads, idle, lock,
                   wakeWorkerQ, hasTS, wpc, job, threadState, nSubmitted,
                   jqHistory>>

AddJob_lock ==
    /\ mpc = "aj_lock"
    /\ lock = NoOwner
    /\ lock' = MainId
    /\ mpc' = "aj_body"
    /\ UNCHANGED <<todo, acceptingJobs, maxThreads, nThreads, idle,
                   wakeWorkerQ, hasTS, wpc, job, threadState, nSubmitted,
                   jqHistory>>

\* The critical section of JobQueue_addJob: push the job, then wake an idle
\* worker or else launch a thread if fewer than maxThreads exist.
AddJob_body ==
    /\ mpc = "aj_body"
    /\ lock = MainId
    /\ todo' = PushJob(nSubmitted + 1, todo)
    /\ nSubmitted' = nSubmitted + 1
    /\ IF idle > 0
         THEN /\ \E W \in SignalWorker :
                    /\ wakeWorkerQ' = wakeWorkerQ \ W
                    /\ wpc' = Unblock(W)
              /\ UNCHANGED nThreads
         ELSE IF nThreads < maxThreads
           THEN /\ wpc' = [wpc EXCEPT ![NewThread] = "start"]
                /\ nThreads' = nThreads + 1
                /\ UNCHANGED wakeWorkerQ
           ELSE UNCHANGED <<wpc, nThreads, wakeWorkerQ>>
    /\ lock' = NoOwner
    /\ mpc' = "ready"
    /\ UNCHANGED <<acceptingJobs, maxThreads, idle, hasTS, job, threadState,
                   jqHistory>>

\* ---- JobQueue_noMoreJobs ----

NoMoreJobs_entry ==
    /\ mpc = "ready"
    /\ mpc' = "nm_lock"
    /\ UNCHANGED <<todo, acceptingJobs, maxThreads, nThreads, idle, lock,
                   wakeWorkerQ, hasTS, wpc, job, threadState, nSubmitted,
                   jqHistory>>

NoMoreJobs_lock ==
    /\ mpc = "nm_lock"
    /\ lock = NoOwner
    /\ lock' = MainId
    /\ mpc' = "nm_body"
    /\ UNCHANGED <<todo, acceptingJobs, maxThreads, nThreads, idle,
                   wakeWorkerQ, hasTS, wpc, job, threadState, nSubmitted,
                   jqHistory>>

\* A shutdown that wakes no worker.
NoMoreJobs_wake_none == {{}}

\* The threads JobQueue_noMoreJobs wakes: all of them when some are idle.
NoMoreJobs_wake == IF idle > 0 THEN BroadcastWorker ELSE {{}}

NoMoreJobs_body ==
    /\ mpc = "nm_body"
    /\ lock = MainId
    /\ acceptingJobs' = FALSE
    /\ \E W \in NoMoreJobs_wake :
          /\ wakeWorkerQ' = wakeWorkerQ \ W
          /\ wpc' = Unblock(W)
    /\ lock' = NoOwner
    /\ mpc' = "ready"
    /\ UNCHANGED <<todo, maxThreads, nThreads, idle, hasTS, job, threadState,
                   nSubmitted, jqHistory>>

\* ---- JobQueue_waitOnJobs ----

WaitOnJobs_entry ==
    /\ mpc = "ready"
    /\ mpc' = "wj_lock"
    /\ UNCHANGED <<todo, acceptingJobs, maxThreads, nThreads, idle, lock,
                   wakeWorkerQ, hasTS, wpc, job, threadState, nSubmitted,
                   jqHistory>>

\* pthread_mutex_lock at entry, and the re-acquisition of the mutex when
\* pthread_cond_wait(&jq->wakeMain) returns.
WaitOnJobs_lock ==
    /\ mpc \in {"wj_lock", "wj_woken"}
    /\ lock = NoOwner
    /\ lock' = MainId
    /\ mpc' = "wj_test"
    /\ UNCHANGED <<todo, acceptingJobs, maxThreads, nThreads, idle,
                   wakeWorkerQ, hasTS, wpc, job, threadState, nSubmitted,
                   jqHistory>>

\* A wait that looks at the list only, not at the idle count.
WaitOnJobs_mustWait_listOnly == todo # <<>>

\* The condition of the loop of JobQueue_waitOnJobs.
WaitOnJobs_mustWait == todo # <<>> \/ idle < nThreads

\* One evaluation of the loop: either wake a worker and wait on wakeMain
\* (which releases the mutex), or leave the loop.
WaitOnJobs_test ==
    /\ mpc = "wj_test"
    /\ lock = MainId
    /\ IF WaitOnJobs_mustWait
         THEN /\ \E W \in (IF idle > 0 THEN SignalWorker ELSE {{}}) :
                    /\ wakeWorkerQ' = wakeWorkerQ \ W
                    /\ wpc' = Unblock(W)
              /\ lock' = NoOwner
              /\ mpc' = "wj_wait"
         ELSE /\ mpc' = "wj_exit"
              /\ UNCHANGED <<wakeWorkerQ, wpc, lock>>
    /\ UNCHANGED <<todo, acceptingJobs, maxThreads, nThreads, idle, hasTS,
                   job, threadState, nSubmitted, jqHistory>>

\* After the loop: wake all workers if the queue is closed, unlock, return.
WaitOnJobs_exit ==
    /\ mpc = "wj_exit"
    /\ lock = MainId
    /\ \E W \in (IF ~acceptingJobs THEN BroadcastWorker ELSE {{}}) :
          /\ wakeWorkerQ' = wakeWorkerQ \ W
          /\ wpc' = Unblock(W)
    /\ lock' = NoOwner
    /\ mpc' = "ready"
    /\ UNCHANGED <<todo, acceptingJobs, maxThreads, nThreads, idle, hasTS,
                   job, threadState, nSubmitted, jqHistory>>

\* pthread_cond_wait may return without a signal.
SpuriousWakeMain ==
    /\ mpc = "wj_wait"
    /\ mpc' = "wj_woken"
    /\ UNCHANGED <<todo, acceptingJobs, maxThreads, nThreads, idle, lock,
                   wakeWorkerQ, hasTS, wpc, job, threadState, nSubmitted,
                   jqHistory>>

\* ---- threadfun ----

\* The object the call of ThreadState_new by thread w returns: each call
\* constructs a new object, named here after the calling thread.
NewState(w) == w

\* Start of threadfun: construct the state of the thread, if there is a
\* constructor.
ThreadStart(w) ==
    /\ mpc # "exited"
    /\ wpc[w] = "start"
    /\ IF hasTS
         THEN /\ threadState' = [threadState EXCEPT ![w] = NewState(w)]
              /\ tsMade' = [tsMade EXCEPT ![w] = @ + 1]
         ELSE UNCHANGED <<threadState, tsMade>>
    /\ wpc' = [wpc EXCEPT ![w] = "lock"]
    /\ UNCHANGED <<todo, acceptingJobs, maxThreads, nThreads, idle, lock,
                   wakeWorkerQ, hasTS, mpc, job, nSubmitted, popCount,
                   execCount, tsPassed, tsFreed, lastPop>>

\* pthread_mutex_lock at the top of the for loop.
WorkerLock(w) ==
    /\ mpc # "exited"
    /\ wpc[w] = "lock"
    /\ lock = NoOwner
    /\ lock' = w
    /\ wpc' = [wpc EXCEPT ![w] = "check"]
    /\ UNCHANGED <<todo, acceptingJobs, maxThreads, nThreads, idle,
                   wakeWorkerQ, hasTS, mpc, job, threadState, nSubmitted,
                   jqHistory>>

\* The condition of the while loop of threadfun.
Worker_mustWait == todo = <<>> /\ acceptingJobs

\* A shutdown test that looks at the flag only, not at the list.
Worker_shutdown_flagOnly == ~acceptingJobs

\* The test after the while loop: NULL == jq->todo means shutting down.
Worker_shutdown == todo = <<>>

\* With the mutex held: wait for work, or leave the for loop, or remove the
\* first job from the list and unlock.
WorkerCheck(w) ==
    /\ mpc # "exited"
    /\ wpc[w] = "check"
    /\ lock = w
    /\ IF Worker_mustWait
         THEN /\ idle' = idle + 1
              /\ mpc' = IF idle + 1 = nThreads THEN SignalMain(mpc) ELSE mpc
              /\ wakeWorkerQ' = wakeWorkerQ \cup {w}
              /\ wpc' = [wpc EXCEPT ![w] = "waiting"]
              /\ lock' = NoOwner
              /\ UNCHANGED <<todo, job, popCount, lastPop>>
         ELSE IF Worker_shutdown
           THEN /\ wpc' = [wpc EXCEPT ![w] = "exiting"]
                /\ UNCHANGED <<idle, mpc, wakeWorkerQ, lock, todo, job,
                               popCount, lastPop>>
           ELSE /\ job' = [job EXCEPT ![w] = FrontJob(todo)]
                /\ todo' = RestJobs(todo)
                /\ popCount' = [popCount EXCEPT ![FrontJob(todo)] = @ + 1]
                /\ lastPop' = <<FrontJob(todo), Earliest(todo)>>
                /\ lock' = NoOwner
                /\ wpc' = [wpc EXCEPT ![w] = "run"]
                /\ UNCHANGED <<idle, mpc, wakeWorkerQ>>
    /\ UNCHANGED <<acceptingJobs, maxThreads, nThreads, hasTS, threadState,
                   nSubmitted, execCount, tsPassed, tsMade, tsFreed>>

\* Return of pthread_cond_wait(&jq->wakeWorker): the mutex is held again,
\* then --jq->idle.
WorkerWake(w) ==
    /\ mpc # "exited"
    /\ wpc[w] = "woken"
    /\ lock = NoOwner
    /\ lock' = w
    /\ idle' = idle - 1
    /\ wpc' = [wpc EXCEPT ![w] = "check"]
    /\ UNCHANGED <<todo, acceptingJobs, maxThreads, nThreads, wakeWorkerQ,
                   hasTS, mpc, job, threadState, nSubmitted, jqHistory>>

\* pthread_cond_wait may return without a signal.
SpuriousWakeWorker(w) ==
    /\ mpc # "exited"
    /\ wpc[w] = "waiting"
    /\ w \in wakeWorkerQ
    /\ wakeWorkerQ' = wakeWorkerQ \ {w}
    /\ wpc' = [wpc EXCEPT ![w] = "woken"]
    /\ UNCHANGED <<todo, acceptingJobs, maxThreads, nThreads, idle, lock,
                   hasTS, mpc, job, threadState, nSubmitted, jqHistory>>

\* One state object shared by all threads.
JobFunState_shared(w) == threadState[1]

\* The second argument of job->jobfun(job->param, threadState).
JobFunState(w) == threadState[w]

\* job->jobfun(job->param, threadState); free(job);
RunJob(w) ==
    /\ mpc # "exited"
    /\ wpc[w] = "run"
    /\ execCount' = [execCount EXCEPT ![job[w]] = @ + 1]
    /\ tsPassed' = [tsPassed EXCEPT ![w] = @ \cup {JobFunState(w)}]
    /\ job' = [job EXCEPT ![w] = 0]
    /\ wpc' = [wpc EXCEPT ![w] = "lock"]
    /\ UNCHANGED <<todo, acceptingJobs, maxThreads, nThreads, idle, lock,
                   wakeWorkerQ, hasTS, mpc, threadState, nSubmitted,
                   popCount, tsMade, tsFreed, lastPop>>

\* After the for loop, still holding the mutex: --jq->nThreads, signal
\* wakeMain, unlock.
WorkerExit(w) ==
    /\ mpc # "exited"
    /\ wpc[w] = "exiting"
    /\ lock = w
    /\ nThreads' = nThreads - 1
    /\ mpc' = SignalMain(mpc)
    /\ lock' = NoOwner
    /\ wpc' = [wpc EXCEPT ![w] = "freeing"]
    /\ UNCHANGED <<todo, acceptingJobs, maxThreads, idle, wakeWorkerQ, hasTS,
                   job, threadState, nSubmitted, jqHistory>>

\* if(threadState) jq->ThreadState_free(threadState); return NULL;
WorkerFree(w) ==
    /\ mpc # "exited"
    /\ wpc[w] = "freeing"
    /\ IF threadState[w] # 0
         THEN tsFreed' = [tsFreed EXCEPT ![w] = @ + 1]
         ELSE UNCHANGED tsFreed
    /\ wpc' = [wpc EXCEPT ![w] = "done"]
    /\ UNCHANGED <<todo, acceptingJobs, maxThreads, nThreads, idle, lock,
                   wakeWorkerQ, hasTS, mpc, job, threadState, nSubmitted,
                   popCount, execCount, tsPassed, tsMade, lastPop>>

\* The steps of the main thread inside a call: once a call has begun, the
\* scheduler runs it on.
MainProgress ==
    \/ AddJob_lock \/ AddJob_body
    \/ NoMoreJobs_lock \/ NoMoreJobs_body
    \/ WaitOnJobs_lock \/ WaitOnJobs_test \/ WaitOnJobs_exit

WorkerStep(w) ==
    \/ ThreadStart(w) \/ WorkerLock(w) \/ WorkerCheck(w) \/ WorkerWake(w)
    \/ RunJob(w) \/ WorkerExit(w) \/ WorkerFree(w)

\* The schedule and the network are not touched by the job queue.
OthersRest ==
    UNCHANGED <<ssVars, pnVars, feVars, rpVars, coVars, duVars, bmVars, scVars>>

NextJQ ==
    \/ AddJob_entry /\ OthersRest
    \/ AddJob_lock /\ OthersRest
    \/ AddJob_body /\ OthersRest
    \/ NoMoreJobs_entry /\ OthersRest
    \/ NoMoreJobs_lock /\ OthersRest
    \/ NoMoreJobs_body /\ OthersRest
    \/ WaitOnJobs_entry /\ OthersRest
    \/ WaitOnJobs_lock /\ OthersRest
    \/ WaitOnJobs_test /\ OthersRest
    \/ WaitOnJobs_exit /\ OthersRest
    \/ SpuriousWakeMain /\ OthersRest
    \/ \E w \in Workers : ThreadStart(w) /\ OthersRest
    \/ \E w \in Workers : WorkerLock(w) /\ OthersRest
    \/ \E w \in Workers : WorkerCheck(w) /\ OthersRest
    \/ \E w \in Workers : WorkerWake(w) /\ OthersRest
    \/ \E w \in Workers : RunJob(w) /\ OthersRest
    \/ \E w \in Workers : WorkerExit(w) /\ OthersRest
    \/ \E w \in Workers : WorkerFree(w) /\ OthersRest
    \/ \E w \in Workers : SpuriousWakeWorker(w) /\ OthersRest

SpecJQ == InitJQ /\ [][NextJQ]_vars

\* Threads are scheduled fairly and every job function returns: each step
\* of a worker, and each step inside a call of the main thread, is taken
\* when it stays possible, and a thread that asks for the mutex again and
\* again while it is free again and again gets it.  Spurious wake-ups and
\* new calls by the main thread need not happen.
FairSpecJQ ==
    /\ SpecJQ
    /\ SF_vars(MainProgress /\ OthersRest)
    /\ \A w \in Workers : SF_vars(WorkerStep(w) /\ OthersRest)

(***************************************************************************)
(*                     Properties of the job queue                         *)
(***************************************************************************)

Submitted == 1..nSubmitted

\* Number of places that hold job j: positions in the list, local variables
\* of workers, and completed calls of jobfun.
InList(j) == Cardinality({i \in 1..Len(todo) : todo[i] = j})
Held(j) == Cardinality({w \in Workers : job[w] = j})
Places(j) == InList(j) + Held(j) + execCount[j]

AllExecuted == \A j \in Submitted : execCount[j] = 1

C2_WaitReturns ==
    mpc = "wj_exit" =>
        /\ todo = <<>>
        /\ idle = nThreads
        /\ AllExecuted
        /\ \A w \in Workers :
              /\ job[w] = 0
              /\ wpc[w] \in {"unborn", "waiting", "woken", "freeing", "done"}

\* waitOnJobs returns after two workers have run the jobs of the run.
C2_Witness ==
    /\ mpc = "wj_exit"
    /\ nSubmitted = MaxJobs
    /\ nThreads = 2
    /\ tsPassed[1] # {} /\ tsPassed[2] # {}

\* C3 as stated: after JobQueue_noMoreJobs every job already submitted is
\* run and every worker exits (nThreads reaches 0), unless the process ends
\* in exit(1).
C3_DrainAndExit_stated ==
    (~acceptingJobs) ~> (mpc = "exited" \/ (nThreads = 0 /\ AllExecuted))

\* C3 amended: the same for a pool constructed with maxThreads >= 1.
C3_DrainAndExit ==
    (~acceptingJobs /\ maxThreads >= 1)
        ~> (mpc = "exited" \/ (nThreads = 0 /\ AllExecuted))

\* The queue is closed, all jobs were run and both workers have exited.
C3_Witness ==
    /\ ~acceptingJobs
    /\ nSubmitted = MaxJobs
    /\ AllExecuted
    /\ nThreads = 0
    /\ \A w \in 1..2 : wpc[w] = "done"

C5_ThreadState ==
    /\ \A w \in Workers :
          /\ tsMade[w] <= 1 /\ tsFreed[w] <= 1
          /\ (hasTS /\ wpc[w] \notin {"unborn", "start"}) =>
                 (tsMade[w] = 1 /\ threadState[w] = NewState(w))
          /\ ~hasTS => (tsMade[w] = 0 /\ threadState[w] = 0)
          /\ wpc[w] = "done" => tsFreed[w] = tsMade[w]
          /\ wpc[w] # "done" => tsFreed[w] = 0
    /\ \A w \in Workers : tsPassed[w] \subseteq {threadState[w]}
    /\ \A v, w \in Workers :
          v # w => (tsPassed[v] \cap tsPassed[w]) \subseteq {NULL}

\* Two workers with a ThreadState each have run jobs, and one has freed its
\* state and terminated.
C5_Witness ==
    /\ hasTS
    /\ tsPassed[1] # {} /\ tsPassed[2] # {}
    /\ \E w \in Workers : wpc[w] = "done" /\ tsFreed[w] = 1

\* C6: a worker leaves the for loop only from the test made with the mutex
\* held and only when the list is empty and acceptingJobs is false; at that
\* test an empty list with acceptingJobs true makes it idle and waiting, and
\* a non-empty list makes it take the first job and run it, whatever
\* acceptingJobs is.
C6_WorkerMachine ==
    [][\A w \in Workers :
        /\ (wpc[w] # "exiting" /\ wpc'[w] = "exiting") =>
              (wpc[w] = "check" /\ lock = w /\ todo = <<>> /\ ~acceptingJobs)
        /\ (wpc'[w] \in {"freeing", "done"} /\ wpc[w] # wpc'[w]) =>
              (wpc[w] \in {"exiting", "freeing"} /\ todo = <<>>
                  /\ ~acceptingJobs)
        /\ (wpc[w] = "check" /\ wpc'[w] # "check") =>
              /\ lock = w
              /\ (todo = <<>> /\ acceptingJobs) =>
                    (wpc'[w] = "waiting" /\ idle' = idle + 1
                        /\ w \in wakeWorkerQ' /\ lock' = NoOwner)
              /\ (todo = <<>> /\ ~acceptingJobs) => wpc'[w] = "exiting"
              /\ todo # <<>> =>
                    (wpc'[w] = "run" /\ job'[w] = Head(todo)
                        /\ todo' = Tail(todo))
      ]_vars

\* A worker has terminated after jobs were run, one waits, the queue closed.
C6_Witness ==
    /\ ~acceptingJobs
    /\ AllExecuted /\ nSubmitted = MaxJobs
    /\ \E w \in Workers : wpc[w] = "done"
    /\ \E w \in Workers : wpc[w] \in {"waiting", "woken"}

\* C26: every read and write of the job list, the idle counter, the
\* thread counter and the acceptingJobs flag by JobQueue_addJob,
\* JobQueue_noMoreJobs, JobQueue_waitOnJobs and the workers is made while
\* the thread holds the mutex of the pool: the step that changes one of
\* them is a step of the owner of the mutex, and the test of acceptingJobs
\* at the entry of JobQueue_addJob is made by the owner too.
C26_UnderMutex ==
    [][/\ (<<todo, idle, nThreads, acceptingJobs>>'
              # <<todo, idle, nThreads, acceptingJobs>>) =>
                 (lock # NoOwner \/ lock' # NoOwner)
       /\ (mpc \in {"aj_body", "nm_body", "wj_test", "wj_exit"}
              /\ mpc' # mpc) => lock = MainId
       /\ \A w \in Workers :
             (wpc[w] \in {"check", "exiting"} /\ wpc'[w] # wpc[w]) => lock = w
       /\ (mpc = "ready" /\ mpc' \in {"aj_lock", "exited"}) => lock = MainId
      ]_vars

\* C30: when JobQueue_waitOnJobs returns after JobQueue_noMoreJobs, the
\* sequence of JobQueue_free, no worker thread is alive any more: nThreads
\* is 0 and every thread that was started has left the mutex and the
\* condition variables behind.
C30_NoWorkerAlive ==
    [][(mpc = "wj_exit" /\ mpc' = "ready" /\ ~acceptingJobs) =>
           /\ nThreads' = 0
           /\ \A w \in Workers : wpc'[w] \in {"unborn", "freeing", "done"}
      ]_vars

\* Inside JobQueue_waitOnJobs, before its loop has been left.
InWaitOnJobs == mpc \in {"wj_lock", "wj_test", "wj_wait", "wj_woken"}

\* C29: in a pool constructed with maxThreads >= 1, with job functions
\* that return and threads that are scheduled fairly, every job submitted
\* with JobQueue_addJob is eventually executed and a call of
\* JobQueue_waitOnJobs eventually returns: from every moment on, a moment
\* comes when all jobs submitted so far have been executed and the main
\* thread is not held inside JobQueue_waitOnJobs (or the process has
\* ended in exit(1)).  No wake-up is lost between the signal of addJob, a
\* worker going idle and the main thread waiting on wakeMain.
C29_NoLostWakeup ==
    (maxThreads >= 1)
        ~> (mpc = "exited" \/ (AllExecuted /\ ~InWaitOnJobs))

\* The main thread waited on wakeMain with jobs outstanding and has been
\* woken by the last worker going idle, after every job of the run was
\* executed by one of two workers.
C29_Witness ==
    /\ mpc = "wj_woken"
    /\ maxThreads >= 1
    /\ nSubmitted = MaxJobs
    /\ AllExecuted
    /\ nThreads = 2
    /\ idle = nThreads
    /\ \A w \in 1..2 : wpc[w] = "waiting"

(***************************************************************************)
(*                  The stage schedule: src/simsched.c                     *)
(***************************************************************************)

\* The values of nOptItr and of nSimReps given to SimSched_append.
OptItrs == {100, 20}
SimReps == {1000, 2000}

\* What a getter does on an empty list: exit(EXIT_FAILURE).
NullStage == -1

\* An append that puts the new link at the head of the list.
Stage_append_front(self, stage) == <<stage>> \o self

\* Append a new link to the end of the list; return the beginning of the list.
RECURSIVE Stage_append(_, _)
Stage_append(self, stage) ==
    IF self = <<>>
      THEN <<stage>>
      ELSE <<Head(self)>> \o Stage_append(Tail(self), stage)

\* A pop that removes nothing.
Stage_popHead_none(self) == self

\* Delete the head of the list and return the new head.
Stage_popHead(self) == IF self = <<>> THEN <<>> ELSE Tail(self)

Stage_getSimReps(self) == IF self = <<>> THEN NullStage ELSE Head(self)[2]

Stage_getOptItr(self) == IF self = <<>> THEN NullStage ELSE Head(self)[1]

SimSched_getSimReps == Stage_getSimReps(list)

SimSched_getOptItr == Stage_getOptItr(list)

SimSched_empty == list = <<>>

\* The number of stages in the schedule (used by test/xsimsched.c).
SimSched_nStages == Len(list)

\* SimSched_new
InitSS ==
    /\ list = <<>>
    /\ appended = <<>>
    /\ nNext = 0
    /\ nextRet = -1
    /\ nextPre = 0
    /\ mixedOrder = FALSE
    \* the other parts of the program are at rest
    /\ todo = <<>>
    /\ acceptingJobs = TRUE
    /\ maxThreads = 0
    /\ nThreads = 0
    /\ idle = 0
    /\ lock = NoOwner
    /\ wakeWorkerQ = {}
    /\ hasTS = FALSE
    /\ mpc = "ready"
    /\ wpc = [w \in Workers |-> "unborn"]
    /\ job = [w \in Workers |-> 0]
    /\ threadState = [w \in Workers |-> 0]
    /\ nSubmitted = 0
    /\ popCount = [j \in Jobs |-> 0]
    /\ execCount = [j \in Jobs |-> 0]
    /\ tsPassed = [w \in Workers |-> {}]
    /\ tsMade = [w \in Workers |-> 0]
    /\ tsFreed = [w \in Workers |-> 0]
    /\ lastPop = <<0, 0>>
    /\ node = <<>>
    /\ par = <<>>
    /\ nOps = 0
    /\ lastStatus = "none"
    /\ bnd = [lo_twoN |-> 0, hi_twoN |-> 0, lo_t |-> 0, hi_t |-> 0]
    /\ feasLast = <<>>
    /\ costRet = "none"
    /\ simStarted = FALSE
    /\ nreps = 0
    /\ nTasks = 0
    /\ nTasksAsked = 0
    /\ reps = <<>>
    /\ qr = <<0, 0>>
    /\ rj = 0
    /\ rpc = "start"
    /\ sndx = <<>>
    /\ sample = <<>>
    /\ stack = <<>>
    /\ atEnd = FALSE
    /\ rootGene = {}
    /\ rep = 0
    /\ gpc = "start"
    /\ visits = <<>>
    /\ new = <<>>
    /\ dOff = <<0, 0>>
    /\ dpc = "start"
    /\ msc = <<>>
    /\ wgt = <<>>
    /\ wden = 1
    /\ nrows = 0
    /\ bi = 0
    /\ bpc = "start"
    /\ scLock = NoOwner
    /\ spc = <<>>
    /\ sloc = <<>>

SimSched_append(nOptItr, nSimReps) ==
    /\ Len(appended) < MaxStages
    /\ list' = Stage_append(list, <<nOptItr, nSimReps>>)
    /\ appended' = Append(appended, <<nOptItr, nSimReps>>)
    /\ mixedOrder' = (mixedOrder \/ nNext > 0)
    /\ UNCHANGED <<nNext, nextRet, nextPre>>

\* The value SimSched_next returns, from the list it found and the list it
\* left behind.
SimSched_next_result(before, after) ==
    IF before = <<>> THEN 1
    ELSE IF after # <<>> THEN 1
    ELSE 0

SimSched_next ==
    /\ nNext < MaxNext
    /\ list' = (IF list = <<>> THEN list ELSE Stage_popHead(list))
    /\ nextRet' = SimSched_next_result(list, list')
    /\ nextPre' = Len(list)
    /\ nNext' = nNext + 1
    /\ UNCHANGED <<appended, mixedOrder>>

NextSS ==
    \/ \E o \in OptItrs, r \in SimReps :
          SimSched_append(o, r)
          /\ RestSS
    \/ SimSched_next /\ RestSS

SpecSS == InitSS /\ [][NextSS]_vars

\* C7: stages are consumed in the order they were appended: when n stages
\* were appended and then SimSched_next was called k times, SimSched_nStages
\* is n for k = 0, the getters return the pair of the (k+1)-th appended stage
\* for k < n, and the schedule has 0 stages for k >= n.
C7_StageOrder ==
    ~mixedOrder =>
        LET n == Len(appended)
            k == nNext
        IN  /\ k = 0 => SimSched_nStages = n
            /\ k < n => /\ SimSched_getOptItr = appended[k + 1][1]
                        /\ SimSched_getSimReps = appended[k + 1][2]
                        /\ SimSched_nStages = n - k
            /\ k >= n => SimSched_nStages = 0

\* Three stages, the second different from the other two, were appended
\* and SimSched_next was called once.
C7_Witness ==
    /\ ~mixedOrder
    /\ Len(appended) = 3
    /\ nNext = 1
    /\ appended[2] # appended[1] /\ appended[2] # appended[3]

\* C8: SimSched_next returns true (non-zero) when a further stage exists
\* after the one it leaves, and false when it is called at the end of the
\* list: with one stage left, or on an empty schedule.
C8_NextResult ==
    nextRet # -1 => ((nextRet # 0) <=> (nextPre >= 2))

(***************************************************************************)
(*       Construction of the network: src/popnode.c, src/segment.c         *)
(*                                                                         *)
(* PopNode_addChild / PopNode_mix and Segment_addChild / Segment_mix have  *)
(* the same text; the model follows popnode.c.  A pointer to a parameter   *)
(* is the index of the parameter, 0 is NULL.  The pointers to times are    *)
(* 1..NTimes and par gives the values they point to.                       *)
(***************************************************************************)

Nodes == 1..NNodes
TimePtrs == 1..NTimes
MixPtr == NTimes + 1      \* the pointer mPtr given to PopNode_mix
TwoNPtr == NTimes + 2     \* the pointer twoN given to PopNode_new

\* PopNode_new: no parents, no children, mix and end NULL.
PopNode_new(twoN, start) ==
    [nparents |-> 0, nchildren |-> 0, twoN |-> twoN,
     start |-> start, end |-> NULL,
     mix |-> NULL, parent |-> <<NULL, NULL>>, child |-> <<NULL, NULL>>,
     oob |-> FALSE]

\* a[i] = v for a C array of two pointers, i counted from 0; a write past the
\* end of the array leaves the array as it is (the node records it in oob).
SetSlot(a, i, v) == IF i < 2 THEN [a EXCEPT ![i + 1] = v] ELSE a

\* The functions from 1..n to S that do not decrease.
Sorted(n, S) == {f \in [1..n -> S] : \A i \in 1..(n - 1) : f[i] <= f[i + 1]}

\* The nodes after the calls of PopNode_new, and the values of the time
\* parameters.  Nodes and time parameters are numbered in the order of
\* their start pointers and of their values: the code compares pointers
\* for equality only, so every other numbering behaves like one of these.
InitPN ==
    /\ \E st \in Sorted(NNodes, TimePtrs) :
          node = [i \in Nodes |-> PopNode_new(TwoNPtr, st[i])]
    /\ par \in Sorted(NTimes, 0..MaxTime)
    /\ nOps = 0
    /\ lastStatus = "none"
    \* the other parts of the program are at rest
    /\ todo = <<>>
    /\ acceptingJobs = TRUE
    /\ maxThreads = 0
    /\ nThreads = 0
    /\ idle = 0
    /\ lock = NoOwner
    /\ wakeWorkerQ = {}
    /\ hasTS = FALSE
    /\ mpc = "ready"
    /\ wpc = [w \in Workers |-> "unborn"]
    /\ job = [w \in Workers |-> 0]
    /\ threadState = [w \in Workers |-> 0]
    /\ nSubmitted = 0
    /\ popCount = [j \in Jobs |-> 0]
    /\ execCount = [j \in Jobs |-> 0]
    /\ tsPassed = [w \in Workers |-> {}]
    /\ tsMade = [w \in Workers |-> 0]
    /\ tsFreed = [w \in Workers |-> 0]
    /\ lastPop = <<0, 0>>
    /\ list = <<>>
    /\ appended = <<>>
    /\ nNext = 0
    /\ nextRet = -1
    /\ nextPre = 0
    /\ mixedOrder = FALSE
    /\ bnd = [lo_twoN |-> 0, hi_twoN |-> 0, lo_t |-> 0, hi_t |-> 0]
    /\ feasLast = <<>>
    /\ costRet = "none"
    /\ simStarted = FALSE
    /\ nreps = 0
    /\ nTasks = 0
    /\ nTasksAsked = 0
    /\ reps = <<>>
    /\ qr = <<0, 0>>
    /\ rj = 0
    /\ rpc = "start"
    /\ sndx = <<>>
    /\ sample = <<>>
    /\ stack = <<>>
    /\ atEnd = FALSE
    /\ rootGene = {}
    /\ rep = 0
    /\ gpc = "start"
    /\ visits = <<>>
    /\ new = <<>>
    /\ dOff = <<0, 0>>
    /\ dpc = "start"
    /\ msc = <<>>
    /\ wgt = <<>>
    /\ wden = 1
    /\ nrows = 0
    /\ bi = 0
    /\ bpc = "start"
    /\ scLock = NoOwner
    /\ spc = <<>>
    /\ sloc = <<>>

\* The return value of PopNode_addChild for the network nd.
PopNode_addChild_status(nd, parent, child) ==
    IF nd[parent].nchildren > 1 THEN "TOO_MANY_CHILDREN"
    ELSE IF nd[child].nparents > 1 THEN "TOO_MANY_PARENTS"
    ELSE IF par[nd[child].start] > par[nd[parent].start] THEN "DATE_MISMATCH"
    ELSE IF nd[child].end # NULL /\ nd[child].end # nd[parent].start
      THEN "DATE_MISMATCH"
    ELSE "OK"

\* The assignments of a PopNode_addChild that returns 0, in program order.
PopNode_addChild_link(nd, parent, child) ==
    LET n1 == IF nd[child].end = NULL
                THEN [nd EXCEPT ![child].end = nd[parent].start]
                ELSE nd
        n2 == [n1 EXCEPT ![parent].child =
                             SetSlot(@, n1[parent].nchildren, child)]
        n3 == [n2 EXCEPT ![child].parent =
                             SetSlot(@, n2[child].nparents, parent)]
        n4 == [n3 EXCEPT ![parent].nchildren = @ + 1]
        n5 == [n4 EXCEPT ![child].nparents = @ + 1]
    IN  n5

PopNode_addChild(parent, child) ==
    /\ nOps < MaxOps
    /\ nOps' = nOps + 1
    /\ lastStatus' = PopNode_addChild_status(node, parent, child)
    /\ node' = IF PopNode_addChild_status(node, parent, child) = "OK"
                 THEN PopNode_addChild_link(node, parent, child)
                 ELSE node
    /\ UNCHANGED par

\* The return value of PopNode_mix for the network nd.
PopNode_mix_status(nd, child, introgressor, native) ==
    IF nd[introgressor].nchildren > 1 THEN "TOO_MANY_CHILDREN"
    ELSE IF nd[native].nchildren > 1 THEN "TOO_MANY_CHILDREN"
    ELSE IF nd[child].nparents > 0 THEN "TOO_MANY_PARENTS"
    ELSE IF nd[child].end # NULL
      THEN IF nd[child].end # nd[introgressor].start THEN "DATE_MISMATCH"
           ELSE IF nd[child].end # nd[native].start THEN "DATE_MISMATCH"
           ELSE "OK"
    ELSE IF nd[native].start # nd[introgressor].start THEN "DATE_MISMATCH"
    ELSE "OK"

\* The assignments of a PopNode_mix that returns 0, in program order.
PopNode_mix_link(nd, child, mPtr, introgressor, native) ==
    LET n1 == IF nd[child].end = NULL
                THEN [nd EXCEPT ![child].end = nd[native].start]
                ELSE nd
        n2 == [n1 EXCEPT ![child].parent = <<native, introgressor>>,
                         ![child].nparents = 2,
                         ![child].mix = mPtr]
        n3 == [n2 EXCEPT ![introgressor].child =
                             SetSlot(@, n2[introgressor].nchildren, child),
                         ![introgressor].oob =
                             @ \/ n2[introgressor].nchildren >= 2]
        n4 == [n3 EXCEPT ![introgressor].nchildren = @ + 1]
        n5 == [n4 EXCEPT ![native].child =
                             SetSlot(@, n4[native].nchildren, child),
                         ![native].oob = @ \/ n4[native].nchildren >= 2]
        n6 == [n5 EXCEPT ![native].nchildren = @ + 1]
    IN  n6

PopNode_mix(child, mPtr, introgressor, native) ==
    /\ nOps < MaxOps
    /\ nOps' = nOps + 1
    /\ lastStatus' = PopNode_mix_status(node, child, introgressor, native)
    /\ node' = IF PopNode_mix_status(node, child, introgressor, native) = "OK"
                 THEN PopNode_mix_link(node, child, mPtr, introgressor, native)
                 ELSE node
    /\ UNCHANGED par

NextPN ==
    \/ \E p, c \in Nodes :
          PopNode_addChild(p, c)
          /\ RestPN
    \/ \E c, i, n \in Nodes :
          PopNode_mix(c, MixPtr, i, n)
          /\ RestPN

SpecPN == InitPN /\ [][NextPN]_vars

\* C9: after any sequence of successful addChild / mix calls a segment has
\* a mix if and only if it has two parents: nparents = 2 gives two non-null
\* parents and a non-null mix, fewer parents give mix = NULL.
C9_MixIffTwoParents ==
    \A i \in Nodes :
        /\ node[i].nparents = 2 =>
              /\ node[i].parent[1] # NULL
              /\ node[i].parent[2] # NULL
              /\ node[i].mix # NULL
        /\ node[i].nparents < 2 => node[i].mix = NULL

\* C10: after any sequence of successful addChild / mix calls every segment
\* has *start <= *end: its start value is not greater than the start value
\* of its parents.
C10_StartLeEnd ==
    \A i \in Nodes :
        /\ node[i].end # NULL => par[node[i].start] <= par[node[i].end]
        /\ \A k \in 1..2 :
              (k <= node[i].nparents /\ node[i].parent[k] # NULL) =>
                  par[node[i].start] <= par[node[node[i].parent[k]].start]

\* C11: addChild and mix reject an illegal edge with a non-zero error code
\* and then leave every field of every segment as it was; consequently
\* nparents <= 2 and nchildren <= 2 hold for every segment after any
\* sequence of calls.
C11_RejectAndBound ==
    [][/\ lastStatus' # "OK" => node' = node
       /\ \A i \in Nodes : /\ node'[i].nparents <= 2
                           /\ node'[i].nchildren <= 2]_vars

\* PopNode_root.  The result is the root, or RootExit when the function
\* calls exit(EXIT_FAILURE).  depth counts the nested calls: on a network
\* of NNodes nodes a chain of more than NNodes calls follows a cycle of
\* parent links and never returns (RootNoReturn).
RootExit == -1
RootNoReturn == -2

RECURSIVE PopNode_root_from(_, _, _)
PopNode_root_from(nd, self, depth) ==
    IF depth > NNodes THEN RootNoReturn
    ELSE IF nd[self].nparents = 0 THEN self
    ELSE IF nd[self].nparents = 1
      THEN PopNode_root_from(nd, nd[self].parent[1], depth + 1)
    ELSE IF nd[self].nparents = 2
      THEN LET r0 == PopNode_root_from(nd, nd[self].parent[1], depth + 1)
               r1 == PopNode_root_from(nd, nd[self].parent[2], depth + 1)
           IN  IF RootNoReturn \in {r0, r1} THEN RootNoReturn
               ELSE IF RootExit \in {r0, r1} THEN RootExit
               ELSE IF r0 # r1 THEN RootExit
               ELSE r0
    ELSE RootExit

PopNode_root(self) == PopNode_root_from(node, self, 1)

\* The segments joined to s by parent links, in either direction.
Joined(s) ==
    {t \in Nodes : \E k \in 1..2 :
        \/ k <= node[s].nparents /\ node[s].parent[k] = t
        \/ k <= node[t].nparents /\ node[t].parent[k] = s}

\* The network of s: every segment connected to s by parent links.
RECURSIVE NetworkFrom(_)
NetworkFrom(S) ==
    LET T == S \cup UNION {Joined(s) : s \in S}
    IN  IF T = S THEN S ELSE NetworkFrom(T)

NetworkOf(s) == NetworkFrom({s})

\* An admixed segment whose two parents lead to different roots.
SplitRoots(a) ==
    /\ node[a].nparents = 2
    /\ PopNode_root(node[a].parent[1]) # PopNode_root(node[a].parent[2])

\* C12: PopNode_root, started from any segment of a network, returns a
\* parentless segment, the same one from every starting segment of the
\* network, and it aborts whenever the two parents of an admixed segment
\* of the network lead to different roots.
C12_SingleRoot ==
    \A s \in Nodes :
        /\ PopNode_root(s) # RootNoReturn
        /\ PopNode_root(s) \in Nodes => node[PopNode_root(s)].nparents = 0
        /\ \A t \in NetworkOf(s) :
              (PopNode_root(s) \in Nodes /\ PopNode_root(t) \in Nodes)
                  => PopNode_root(s) = PopNode_root(t)
        /\ (\E a \in NetworkOf(s) : SplitRoots(a))
              => PopNode_root(s) = RootExit

\* How often the array child[0..1] of p names c within its first nchildren
\* places, and how often the array parent[0..1] of c names p within its
\* first nparents places.
TimesChild(nd, p, c) ==
    Cardinality({k \in 1..2 : k <= nd[p].nchildren /\ nd[p].child[k] = c})
TimesParent(nd, c, p) ==
    Cardinality({k \in 1..2 : k <= nd[c].nparents /\ nd[c].parent[k] = p})

\* A node as PopNode_new leaves it, as far as its links go.
Fresh(n) == n.nparents = 0 /\ n.nchildren = 0

\* C23: the parent and child links stay consistent: after any sequence of
\* addChild / mix calls p names c among its children as often as c names p
\* among its parents, with as many children and parents counted as listed;
\* and a successful call that gives the fresh node p one child and the
\* fresh node c one parent leaves p.child[0] = c and c.parent[0] = p.
C23_LinksConsistent ==
    /\ [](\A p, c \in Nodes :
            /\ TimesChild(node, p, c) = TimesParent(node, c, p)
            /\ node[p].nchildren <= 2 /\ node[p].nparents <= 2)
    /\ [][\A p, c \in Nodes :
            (/\ Fresh(node[p]) /\ Fresh(node[c])
             /\ lastStatus' = "OK" /\ nOps' = nOps + 1
             /\ node'[p].nchildren = 1 /\ node'[c].nparents = 1) =>
                (node'[p].child[1] = c /\ node'[c].parent[1] = p)]_vars

(***************************************************************************)
(*   Feasibility and the cost function: src/popnode.c, src/gptree.c,       *)
(*   src/cost.c                                                            *)
(*                                                                         *)
(* The evaluator owns a GPTree: a network, the parameter values the        *)
(* pointers of its segments refer to (par) and the Bounds bnd.  The values *)
(* of parameters and bounds are integers.                                  *)
(***************************************************************************)

MaxVal == 2

\* The pointers into the ParStore: the start times of the segments, the
\* mixture fraction and the population sizes.
Ptr == [Tc |-> 1, Tm |-> 2, Tr |-> 3, mix |-> 4, twoNc |-> 5, twoN |-> 6]
ParPtrs == 1..6
TimeVals == 0..MaxVal
MixVals == -1..MaxVal
TwoNVals == 0..MaxVal

\* The parameter values a ParStore may hold.
ParVals ==
    {pv \in [ParPtrs -> MixVals] :
        /\ \A p \in {Ptr.Tc, Ptr.Tm, Ptr.Tr} : pv[p] \in TimeVals
        /\ \A p \in {Ptr.twoNc, Ptr.twoN} : pv[p] \in TwoNVals}

\* The free parameters and the vectors x the optimizer may hand to costFun.
FreePtrs == {Ptr.Tc, Ptr.mix}
FreeVecs == {x \in [FreePtrs -> MixVals] : x[Ptr.Tc] \in TimeVals}

\* struct Bounds
Bounds(lo_twoN, hi_twoN, lo_t, hi_t) ==
    [lo_twoN |-> lo_twoN, hi_twoN |-> hi_twoN, lo_t |-> lo_t, hi_t |-> hi_t]

BoundsSet ==
    {Bounds(a[1], a[2], c, d) : a \in {<<0, MaxVal>>, <<1, 1>>},
                                c \in {0, 1}, d \in {1, MaxVal}}

\* The segments of the network: c is admixed, with native parent n and
\* introgressor i, which are the two children of the root r.
Seg == [c |-> 1, i |-> 2, n |-> 3, r |-> 4]
Segs == 1..4

\* The network the calls PopNode_new (four times), PopNode_mix(c, mix, i, n),
\* PopNode_addChild(r, i) and PopNode_addChild(r, n) build.
GPTree_network ==
    LET n0 == <<PopNode_new(Ptr.twoNc, Ptr.Tc), PopNode_new(Ptr.twoN, Ptr.Tm),
                PopNode_new(Ptr.twoN, Ptr.Tm), PopNode_new(Ptr.twoN, Ptr.Tr)>>
        n1 == PopNode_mix_link(n0, Seg.c, Ptr.mix, Seg.i, Seg.n)
        n2 == PopNode_addChild_link(n1, Seg.r, Seg.i)
        n3 == PopNode_addChild_link(n2, Seg.r, Seg.n)
    IN  n3

rootPop == Seg.r

\* PopNode_feasible without the child loop: only the tests on self.
PopNode_feasible_selfOnly(nd, pv, self, b) ==
    LET s == nd[self]
    IN  IF pv[s.twoN] < b.lo_twoN \/ pv[s.twoN] > b.hi_twoN THEN 0
        ELSE IF pv[s.start] > b.hi_t \/ pv[s.start] < b.lo_t THEN 0
        ELSE 1

\* PopNode_feasible with the upper limit of mix taken from the bounds
\* (lo_t) instead of 1.0.
RECURSIVE PopNode_feasible_mixLimit(_, _, _, _)
PopNode_feasible_mixLimit(nd, pv, self, b) ==
    LET s == nd[self]
    IN  IF pv[s.twoN] < b.lo_twoN \/ pv[s.twoN] > b.hi_twoN THEN 0
        ELSE IF pv[s.start] > b.hi_t \/ pv[s.start] < b.lo_t THEN 0
        ELSE IF s.nparents = 2 /\ pv[s.start] > pv[nd[s.parent[2]].start]
          THEN 0
        ELSE IF s.nparents \in {1, 2}
                /\ pv[s.start] > pv[nd[s.parent[1]].start]
          THEN 0
        ELSE IF s.nchildren = 2 /\ pv[s.start] < pv[nd[s.child[2]].start]
          THEN 0
        ELSE IF s.nchildren \in {1, 2}
                /\ pv[s.start] < pv[nd[s.child[1]].start]
          THEN 0
        ELSE IF s.mix # NULL /\ (pv[s.mix] < 0 \/ pv[s.mix] > b.lo_t) THEN 0
        ELSE IF \E k \in 1..s.nchildren :
                    PopNode_feasible_mixLimit(nd, pv, s.child[k], b) = 0
          THEN 0
        ELSE 1

\* PopNode_feasible(self, bnd) on the network nd with parameter values pv:
\* the tests in the order of the code, 0 at the first that fails.
RECURSIVE PopNode_feasible(_, _, _, _)
PopNode_feasible(nd, pv, self, b) ==
    LET s == nd[self]
    IN  IF pv[s.twoN] < b.lo_twoN \/ pv[s.twoN] > b.hi_twoN THEN 0
        ELSE IF pv[s.start] > b.hi_t \/ pv[s.start] < b.lo_t THEN 0
        ELSE IF s.nparents = 2 /\ pv[s.start] > pv[nd[s.parent[2]].start]
          THEN 0
        ELSE IF s.nparents \in {1, 2}
                /\ pv[s.start] > pv[nd[s.parent[1]].start]
          THEN 0
        ELSE IF s.nchildren = 2 /\ pv[s.start] < pv[nd[s.child[2]].start]
          THEN 0
        ELSE IF s.nchildren \in {1, 2}
                /\ pv[s.start] < pv[nd[s.child[1]].start]
          THEN 0
        ELSE IF s.mix # NULL /\ (pv[s.mix] < 0 \/ pv[s.mix] > 1) THEN 0
        ELSE IF \E k \in 1..s.nchildren :
                    PopNode_feasible(nd, pv, s.child[k], b) = 0
          THEN 0
        ELSE 1

\* GPTree_feasible: PopNode_feasible from the root under the GPTree's bounds.
GPTree_feasible(pv) == PopNode_feasible(node, pv, rootPop, bnd)

\* ParStore_setFreeParams: the vector x becomes the free parameters.
ParStore_setFreeParams(pv, x) ==
    [p \in ParPtrs |-> IF p \in FreePtrs THEN x[p] ELSE pv[p]]

\* GPTree_setParams
GPTree_setParams(pv, x) == ParStore_setFreeParams(pv, x)

\* The state after GPTree_new: the network, a parameter store that is
\* feasible under the bounds (GPTree_new exits otherwise), no call yet.
InitFE ==
    /\ node = GPTree_network
    /\ bnd \in {Bounds(0, MaxVal, 0, 1), Bounds(0, MaxVal, 0, MaxVal)}
    /\ par \in {pv \in ParVals :
                   PopNode_feasible(GPTree_network, pv, rootPop,
                                    Bounds(0, MaxVal, 0, MaxVal)) = 1}
    /\ PopNode_feasible(node, par, rootPop, bnd) = 1
    /\ feasLast = <<>>
    /\ costRet = "none"
    /\ simStarted = FALSE
    /\ nOps = 0
    /\ lastStatus = "none"
    \* the other parts of the program are at rest
    /\ todo = <<>>
    /\ acceptingJobs = TRUE
    /\ maxThreads = 0
    /\ nThreads = 0
    /\ idle = 0
    /\ lock = NoOwner
    /\ wakeWorkerQ = {}
    /\ hasTS = FALSE
    /\ mpc = "ready"
    /\ wpc = [w \in Workers |-> "unborn"]
    /\ job = [w \in Workers |-> 0]
    /\ threadState = [w \in Workers |-> 0]
    /\ nSubmitted = 0
    /\ popCount = [j \in Jobs |-> 0]
    /\ execCount = [j \in Jobs |-> 0]
    /\ tsPassed = [w \in Workers |-> {}]
    /\ tsMade = [w \in Workers |-> 0]
    /\ tsFreed = [w \in Workers |-> 0]
    /\ lastPop = <<0, 0>>
    /\ list = <<>>
    /\ appended = <<>>
    /\ nNext = 0
    /\ nextRet = -1
    /\ nextPre = 0
    /\ mixedOrder = FALSE
    /\ nreps = 0
    /\ nTasks = 0
    /\ nTasksAsked = 0
    /\ reps = <<>>
    /\ qr = <<0, 0>>
    /\ rj = 0
    /\ rpc = "start"
    /\ sndx = <<>>
    /\ sample = <<>>
    /\ stack = <<>>
    /\ atEnd = FALSE
    /\ rootGene = {}
    /\ rep = 0
    /\ gpc = "start"
    /\ visits = <<>>
    /\ new = <<>>
    /\ dOff = <<0, 0>>
    /\ dpc = "start"
    /\ msc = <<>>
    /\ wgt = <<>>
    /\ wden = 1
    /\ nrows = 0
    /\ bi = 0
    /\ bpc = "start"
    /\ scLock = NoOwner
    /\ spc = <<>>
    /\ sloc = <<>>

\* A call PopNode_feasible(rootPop, b).  feasLast keeps this call and, when
\* it returned 1, the call made before it on the same parameter values.
Call_PopNode_feasible(b) ==
    /\ feasLast' = <<<<b, PopNode_feasible(node, par, rootPop, b)>>>>
                      \o (IF feasLast # <<>> /\ feasLast[1][2] = 1
                            THEN <<feasLast[1]>> ELSE <<>>)
    /\ costRet' = "none"
    /\ simStarted' = FALSE
    /\ UNCHANGED <<bnd, pnVars>>

\* The test of costFun that ends the evaluation before patprob.
costFun_unchecked(pv) == FALSE

costFun_rejects(pv) == GPTree_feasible(pv) = 0

\* costFun(dim, x, jdata, tdata): "HUGE_VAL" is the value returned before
\* patprob, "cost" the value computed from the table patprob returns.
costFun(x) ==
    /\ par' = GPTree_setParams(par, x)
    /\ IF costFun_rejects(GPTree_setParams(par, x))
         THEN costRet' = "HUGE_VAL" /\ simStarted' = FALSE
         ELSE costRet' = "cost" /\ simStarted' = TRUE
    /\ feasLast' = <<>>
    /\ UNCHANGED <<bnd, node, nOps, lastStatus>>

NextFE ==
    \/ \E b \in BoundsSet :
          Call_PopNode_feasible(b)
          /\ RestFE
    \/ \E x \in FreeVecs :
          costFun(x) /\ RestFE

SpecFE == InitFE /\ [][NextFE]_vars

\* The segments reached from the segments S through child links.
RECURSIVE ReachDown(_)
ReachDown(S) ==
    LET T == S \cup UNION {{node[s].child[k] : k \in 1..node[s].nchildren} :
                              s \in S}
    IN  IF T = S THEN S ELSE ReachDown(T)

\* The parameter values pv are feasible under the bounds b: what a return
\* value of 1 is to mean.
Feasible(pv, b) ==
    \A s \in ReachDown({rootPop}) :
        /\ b.lo_twoN <= pv[node[s].twoN] /\ pv[node[s].twoN] <= b.hi_twoN
        /\ b.lo_t <= pv[node[s].start] /\ pv[node[s].start] <= b.hi_t
        /\ \A k \in 1..node[s].nparents :
              pv[node[s].start] <= pv[node[node[s].parent[k]].start]
        /\ \A k \in 1..node[s].nchildren :
              pv[node[s].start] >= pv[node[node[s].child[k]].start]
        /\ node[s].mix # NULL =>
              (0 <= pv[node[s].mix] /\ pv[node[s].mix] <= 1)

\* C13: PopNode_feasible(root, bnd) returns 1 exactly when every segment
\* reachable from root through child links has twoN in [lo_twoN, hi_twoN],
\* start in [lo_t, hi_t], start <= the start of each parent and >= the start
\* of each child, and mix (when present) in [0, 1]; otherwise it returns 0.
C13_FeasibleExactly ==
    feasLast # <<>> =>
        /\ feasLast[1][2] \in {0, 1}
        /\ feasLast[1][2] = 1 <=> Feasible(par, feasLast[1][1])

\* A call returned 0 although the root and its children pass every test:
\* only the mixture fraction of the admixed segment is out of range.
C13_Witness ==
    /\ feasLast # <<>>
    /\ feasLast[1][2] = 0
    /\ par[Ptr.mix] > 1
    /\ LET b == feasLast[1][1]
       IN  Feasible([par EXCEPT ![Ptr.mix] = 0], b)

\* The bounds b1 are contained in b2, component by component.
Contained(b1, b2) ==
    /\ b2.lo_twoN <= b1.lo_twoN /\ b1.hi_twoN <= b2.hi_twoN
    /\ b2.lo_t <= b1.lo_t /\ b1.hi_t <= b2.hi_t

\* C14: feasibility is monotone in the bounds: when PopNode_feasible
\* returned 1 under bounds B1 and is then called, for the same network and
\* parameter values, under bounds B2 that contain B1, it returns 1.
C14_Monotone ==
    (/\ Len(feasLast) = 2
     /\ feasLast[2][2] = 1
     /\ Contained(feasLast[2][1], feasLast[1][1]))
        => feasLast[1][2] = 1

\* Feasible under B1, then called under strictly wider bounds B2, where
\* some value lies at a limit of B1.
C14_Witness ==
    /\ Len(feasLast) = 2
    /\ feasLast[2][2] = 1
    /\ Contained(feasLast[2][1], feasLast[1][1])
    /\ feasLast[2][1].hi_t < feasLast[1][1].hi_t
    /\ feasLast[2][1].lo_twoN > feasLast[1][1].lo_twoN
    /\ par[Ptr.Tr] = feasLast[2][1].hi_t

OutOfBounds(pv, b) ==
    \/ pv[Ptr.Tc] < b.lo_t \/ pv[Ptr.Tc] > b.hi_t
    \/ pv[Ptr.mix] < 0 \/ pv[Ptr.mix] > 1

MaxReps == 6        \* the largest replicate count given with -i
MaxTasksOpt == 3    \* the largest task count given with -t
MaxCores == 2       \* the largest value of getNumCores()

\* The value of an element of reps[] that was not assigned yet.
Unset == -1

\* ldiv(numer, denom) for numer >= 0 and denom > 0: <<quot, rem>>.
ldiv(numer, denom) == <<numer \div denom, numer % denom>>

\* The state at line 105: nreps and nTasks as the command line gave them
\* (nTasks is 0 when there was no -t).
InitRP ==
    /\ nreps \in 1..MaxReps
    /\ nTasks \in 0..MaxTasksOpt
    /\ nTasksAsked = 0
    /\ reps = <<>>
    /\ qr = <<0, 0>>
    /\ rj = 0
    /\ rpc = "start"
    \* the other parts of the program are at rest
    /\ todo = <<>>
    /\ acceptingJobs = TRUE
    /\ maxThreads = 0
    /\ nThreads = 0
    /\ idle = 0
    /\ lock = NoOwner
    /\ wakeWorkerQ = {}
    /\ hasTS = FALSE
    /\ mpc = "ready"
    /\ wpc = [w \in Workers |-> "unborn"]
    /\ job = [w \in Workers |-> 0]
    /\ threadState = [w \in Workers |-> 0]
    /\ nSubmitted = 0
    /\ popCount = [j \in Jobs |-> 0]
    /\ execCount = [j \in Jobs |-> 0]
    /\ tsPassed = [w \in Workers |-> {}]
    /\ tsMade = [w \in Workers |-> 0]
    /\ tsFreed = [w \in Workers |-> 0]
    /\ lastPop = <<0, 0>>
    /\ list = <<>>
    /\ appended = <<>>
    /\ nNext = 0
    /\ nextRet = -1
    /\ nextPre = 0
    /\ mixedOrder = FALSE
    /\ node = <<>>
    /\ par = <<>>
    /\ nOps = 0
    /\ lastStatus = "none"
    /\ bnd = [lo_twoN |-> 0, hi_twoN |-> 0, lo_t |-> 0, hi_t |-> 0]
    /\ feasLast = <<>>
    /\ costRet = "none"
    /\ simStarted = FALSE
    /\ sndx = <<>>
    /\ sample = <<>>
    /\ stack = <<>>
    /\ atEnd = FALSE
    /\ rootGene = {}
    /\ rep = 0
    /\ gpc = "start"
    /\ visits = <<>>
    /\ new = <<>>
    /\ dOff = <<0, 0>>
    /\ dpc = "start"
    /\ msc = <<>>
    /\ wgt = <<>>
    /\ wden = 1
    /\ nrows = 0
    /\ bi = 0
    /\ bpc = "start"
    /\ scLock = NoOwner
    /\ spc = <<>>
    /\ sloc = <<>>

\* Lines 105-106: if(nTasks == 0) nTasks = getNumCores();
Main_defaultTasks(cores) ==
    /\ rpc = "start"
    /\ nTasks' = IF nTasks = 0 THEN cores ELSE nTasks
    /\ nTasksAsked' = nTasks'
    /\ rpc' = "limit"
    /\ UNCHANGED <<nreps, reps, qr, rj>>

\* Lines 108-109: if(nTasks > nreps) nTasks = nreps;
Main_limitTasks ==
    /\ rpc = "limit"
    /\ nTasks' = IF nTasks > nreps THEN nreps ELSE nTasks
    /\ rpc' = "ldiv"
    /\ UNCHANGED <<nreps, nTasksAsked, reps, qr, rj>>

\* Lines 112-115: the array reps[nTasks], ldiv and assert(qr.quot > 0).
Main_ldiv ==
    /\ rpc = "ldiv"
    /\ reps' = [j \in 1..nTasks |-> Unset]
    /\ qr' = ldiv(nreps, nTasks)
    /\ rj' = 0
    /\ rpc' = IF ldiv(nreps, nTasks)[1] > 0 THEN "fill" ELSE "abort"
    /\ UNCHANGED <<nreps, nTasks, nTasksAsked>>

\* Lines 116-118: for(j = 0; j < nTasks; ++j) reps[j] = qr.quot;
\* then assert(qr.rem < nTasks).
Main_fill ==
    /\ rpc = "fill"
    /\ IF rj < nTasks
         THEN /\ reps' = [reps EXCEPT ![rj + 1] = qr[1]]
              /\ rj' = rj + 1
              /\ rpc' = "fill"
         ELSE /\ reps' = reps
              /\ rj' = 0
              /\ rpc' = IF qr[2] < nTasks THEN "extra" ELSE "abort"
    /\ UNCHANGED <<nreps, nTasks, nTasksAsked, qr>>

\* The test of the loop at line 119 with <= for <.
Main_extraGoesOn_inclusive(j, rem) == j <= rem

\* The test of the loop at line 119: j < qr.rem.
Main_extraGoesOn(j, rem) == j < rem

\* Lines 119-120: for(j=0; j < qr.rem; ++j) reps[j] += 1;
Main_extra ==
    /\ rpc = "extra"
    /\ IF Main_extraGoesOn(rj, qr[2])
         THEN /\ reps' = [reps EXCEPT ![rj + 1] = @ + 1]
              /\ rj' = rj + 1
              /\ rpc' = "extra"
         ELSE /\ reps' = reps
              /\ rj' = rj
              /\ rpc' = "done"
    /\ UNCHANGED <<nreps, nTasks, nTasksAsked, qr>>

NextRP ==
    \/ \E cores \in 1..MaxCores :
          Main_defaultTasks(cores)
          /\ RestRP
    \/ Main_limitTasks /\ RestRP
    \/ Main_ldiv /\ RestRP
    \/ Main_fill /\ RestRP
    \/ Main_extra /\ RestRP

SpecRP == InitRP /\ [][NextRP]_vars

RECURSIVE SumReps(_)
SumReps(r) == IF r = <<>> THEN 0 ELSE Head(r) + SumReps(Tail(r))

Min(a, b) == IF a < b THEN a ELSE b

\* C17: the replicate count R >= 1 is split among T = min(nTasks, R) tasks:
\* the first (R mod T) tasks get floor(R/T) + 1 replicates and the rest get
\* floor(R/T); every task gets at least one replicate and the counts sum
\* to R.  The split is never abandoned by a failed assertion.
C17_SplitReplicates ==
    /\ rpc # "abort"
    /\ rpc = "done" =>
          /\ nTasks = Min(nTasksAsked, nreps)
          /\ Len(reps) = nTasks
          /\ \A j \in 1..nTasks :
                /\ reps[j] = (nreps \div nTasks)
                               + (IF j <= nreps % nTasks THEN 1 ELSE 0)
                /\ reps[j] >= 1
          /\ SumReps(reps) = nreps

\* A split into at least two tasks that leaves a remainder, so that some
\* tasks get one replicate more than others.
C17_Witness ==
    /\ rpc = "done"
    /\ nTasks >= 2
    /\ nreps % nTasks # 0
    /\ reps[1] = reps[nTasks] + 1

(***************************************************************************)
(*   One call of GPTree_simulate: src/gptree.c, lines 58-80, with          *)
(*   PopNode_clear, PopNode_newGene, PopNode_addSample and                 *)
(*   PopNode_coalesce of src/popnode.c                                     *)
(*                                                                         *)
(* A Gene is the set of the samples below it (its tipId); Gene_join gives  *)
(* the union.  sample[i] is the array sample[0..nsamples-1] of segment i.  *)
(* The random draws of PopNode_coalesce are choices: whether the next      *)
(* coalescent event falls within the interval, which pair joins, and which *)
(* parent an admixed lineage goes to.  The call of PopNode_gaussian        *)
(* (lines 64-65), whose definition is not in popnode.c, is left out.       *)
(***************************************************************************)

MaxSamp == 3        \* the largest number of samples in the SampNdx
MaxSimReps == 2     \* nreps of GPTree_simulate
MAXSAMP == 32

\* PopNode_clear without the calls on the children.
PopNode_clear_selfOnly(smp, self) ==
    [smp EXCEPT ![self] = <<>>]

\* PopNode_clear on the sample arrays smp: the children first, then self.
RECURSIVE PopNode_clear(_, _)
PopNode_clear(smp, self) ==
    LET s1 == IF node[self].nchildren >= 1
                THEN PopNode_clear(smp, node[self].child[1]) ELSE smp
        s2 == IF node[self].nchildren >= 2
                THEN PopNode_clear(s1, node[self].child[2]) ELSE s1
    IN  [s2 EXCEPT ![self] = <<>>]

\* A PopNode_newGene that gives every Gene the tipId 1.
PopNode_newGene_sameBit(smp, self, ndx) ==
    [smp EXCEPT ![self] = Append(@, {0})]

\* PopNode_newGene(self, ndx): a new Gene with tipId 1 << ndx is put at the
\* end of the array.
PopNode_newGene(smp, self, ndx) == [smp EXCEPT ![self] = Append(@, {ndx})]

\* SampNdx_populateTree: one new Gene for every sample of the SampNdx, in
\* the segment the SampNdx names for it.
RECURSIVE SampNdx_populateTree(_, _)
SampNdx_populateTree(smp, k) ==
    IF k > Len(sndx) THEN smp
    ELSE SampNdx_populateTree(PopNode_newGene(smp, sndx[k], k - 1), k + 1)

\* PopNode_addSample(self, gene)
PopNode_addSample(smp, self, gene) == [smp EXCEPT ![self] = Append(@, gene)]

\* Gene_join(lchild, rchild)
Gene_join(a, b) == a \cup b

\* The NULL pointer to a Gene: no set of samples.
NullGene == {}

\* The state at the call of GPTree_simulate: the network of the GPTree with
\* feasible times and leaves that start at time 0, a SampNdx of one to
\* MaxSamp samples, numbered in the order of their segments, and segments
\* that are clear or still hold the samples of an earlier
\* SampNdx_populateTree.
InitCO ==
    /\ node = GPTree_network
    /\ par \in {pv \in ParVals :
                   /\ pv[Ptr.Tc] = 0 /\ pv[Ptr.mix] = 0
                   /\ pv[Ptr.twoNc] = 1 /\ pv[Ptr.twoN] = 1
                   /\ PopNode_feasible(GPTree_network, pv, rootPop,
                                       Bounds(0, MaxVal, 0, MaxVal)) = 1}
    /\ \E n \in 1..MaxSamp : sndx \in Sorted(n, Segs)
    /\ sample \in {[i \in Segs |-> <<>>],
                   [i \in Segs |-> IF i = sndx[1] THEN <<{0}>> ELSE <<>>]}
    /\ stack = <<>>
    /\ atEnd = FALSE
    /\ rootGene = NullGene
    /\ rep = 0
    /\ gpc = "loop"
    /\ nOps = 0
    /\ lastStatus = "none"
    \* the other parts of the program are at rest
    /\ todo = <<>>
    /\ acceptingJobs = TRUE
    /\ maxThreads = 0
    /\ nThreads = 0
    /\ idle = 0
    /\ lock = NoOwner
    /\ wakeWorkerQ = {}
    /\ hasTS = FALSE
    /\ mpc = "ready"
    /\ wpc = [w \in Workers |-> "unborn"]
    /\ job = [w \in Workers |-> 0]
    /\ threadState = [w \in Workers |-> 0]
    /\ nSubmitted = 0
    /\ popCount = [j \in Jobs |-> 0]
    /\ execCount = [j \in Jobs |-> 0]
    /\ tsPassed = [w \in Workers |-> {}]
    /\ tsMade = [w \in Workers |-> 0]
    /\ tsFreed = [w \in Workers |-> 0]
    /\ lastPop = <<0, 0>>
    /\ list = <<>>
    /\ appended = <<>>
    /\ nNext = 0
    /\ nextRet = -1
    /\ nextPre = 0
    /\ mixedOrder = FALSE
    /\ bnd = Bounds(0, MaxVal, 0, MaxVal)
    /\ feasLast = <<>>
    /\ costRet = "none"
    /\ simStarted = FALSE
    /\ nreps = 0
    /\ nTasks = 0
    /\ nTasksAsked = 0
    /\ reps = <<>>
    /\ qr = <<0, 0>>
    /\ rj = 0
    /\ rpc = "start"
    /\ visits = [s \in Segs |-> 0]
    /\ new = <<>>
    /\ dOff = <<0, 0>>
    /\ dpc = "start"
    /\ msc = <<>>
    /\ wgt = <<>>
    /\ wden = 1
    /\ nrows = 0
    /\ bi = 0
    /\ bpc = "start"
    /\ scLock = NoOwner
    /\ spc = <<>>
    /\ sloc = <<>>

\* Lines 61-62: the test of the loop and PopNode_clear(self->rootPop).
Simulate_clear ==
    /\ gpc = "loop"
    /\ IF rep < MaxSimReps
         THEN /\ sample' = PopNode_clear(sample, rootPop)
              /\ visits' = [s \in Segs |-> 0]
              /\ gpc' = "populate"
         ELSE /\ sample' = sample
              /\ visits' = visits
              /\ gpc' = "done"
    /\ UNCHANGED <<sndx, stack, atEnd, rootGene, rep>>

\* Line 63 and the call at line 69: SampNdx_populateTree, then
\* PopNode_coalesce(self->rootPop, rng) is entered.
Simulate_populate ==
    /\ gpc = "populate"
    /\ sample' = SampNdx_populateTree(sample, 1)
    /\ stack' = <<[self |-> rootPop, phase |-> "child0"]>>
    /\ gpc' = "coalesce"
    /\ UNCHANGED <<sndx, atEnd, rootGene, rep, visits>>

\* The innermost call of PopNode_coalesce.
Top == stack[Len(stack)]

SetPhase(ph) == [stack EXCEPT ![Len(stack)].phase = ph]

\* A PopNode_coalesce that goes on to its own loop without the calls on
\* its children.
Coalesce_children_skip ==
    /\ gpc = "coalesce"
    /\ stack # <<>>
    /\ Top.phase \in {"child0", "child1"}
    /\ stack' = SetPhase(IF Top.phase = "child0" THEN "child1" ELSE "begin")
    /\ UNCHANGED <<sndx, sample, atEnd, rootGene, rep, gpc, visits>>

\* popnode.c:378-381: the calls on child[0] and child[1], when not NULL.
Coalesce_children ==
    /\ gpc = "coalesce"
    /\ stack # <<>>
    /\ Top.phase \in {"child0", "child1"}
    /\ LET k == IF Top.phase = "child0" THEN 1 ELSE 2
           next == IF Top.phase = "child0" THEN "child1" ELSE "begin"
           ch == node[Top.self].child[k]
       IN  stack' = IF ch # NULL
                      THEN Append(SetPhase(next),
                                  [self |-> ch, phase |-> "child0"])
                      ELSE SetPhase(next)
    /\ UNCHANGED <<sndx, sample, atEnd, rootGene, rep, gpc, visits>>

\* popnode.c:368 and 383-392: end is HUGE_VAL for a segment without end,
\* t = *self->start, and the program exits when t > end.
Coalesce_begin ==
    /\ gpc = "coalesce"
    /\ stack # <<>>
    /\ Top.phase = "begin"
    /\ LET s == node[Top.self]
       IN  IF s.end # NULL /\ par[s.start] > par[s.end]
             THEN /\ gpc' = "exit"
                  /\ UNCHANGED <<stack, atEnd>>
             ELSE /\ atEnd' = (s.end # NULL /\ par[s.start] = par[s.end])
                  /\ stack' = SetPhase("loop")
                  /\ gpc' = gpc
    /\ visits' = [visits EXCEPT ![Top.self] = @ + 1]
    /\ UNCHANGED <<sndx, sample, rootGene, rep>>

\* The test of the while loop with nsamples > 2 for nsamples > 1.
Coalesce_loopGoesOn_two == Len(sample[Top.self]) > 2 /\ ~atEnd

\* The test of the while loop at popnode.c:396.
Coalesce_loopGoesOn == Len(sample[Top.self]) > 1 /\ ~atEnd

\* A coalescent event that drops the last lineage where the code moves it
\* to the place j.
Coalesce_join_dropLast(i, j) ==
    /\ gpc = "coalesce"
    /\ stack # <<>>
    /\ Top.phase = "loop"
    /\ Coalesce_loopGoesOn
    /\ i < j /\ j < Len(sample[Top.self])
    /\ LET a == sample[Top.self]
           n == Len(a) - 1
           a1 == [a EXCEPT ![i + 1] = Gene_join(a[i + 1], a[j + 1])]
       IN  sample' = [sample EXCEPT ![Top.self] = SubSeq(a1, 1, n)]
    /\ UNCHANGED <<sndx, stack, atEnd, rootGene, rep, gpc, visits>>

\* popnode.c:403-427: a coalescent event within the interval joins the
\* lineages i < j (counted from 0); the last lineage moves to the place j.
Coalesce_join(i, j) ==
    /\ gpc = "coalesce"
    /\ stack # <<>>
    /\ Top.phase = "loop"
    /\ Coalesce_loopGoesOn
    /\ i < j /\ j < Len(sample[Top.self])
    /\ LET a == sample[Top.self]
           n == Len(a) - 1
           a1 == [a EXCEPT ![i + 1] = Gene_join(a[i + 1], a[j + 1])]
           a2 == IF j # n THEN [a1 EXCEPT ![j + 1] = a1[n + 1]] ELSE a1
       IN  sample' = [sample EXCEPT ![Top.self] = SubSeq(a2, 1, n)]
    /\ UNCHANGED <<sndx, stack, atEnd, rootGene, rep, gpc, visits>>

\* popnode.c:428-435: no coalescent event before the end of the interval,
\* which is finite: t = end.
Coalesce_reachEnd ==
    /\ gpc = "coalesce"
    /\ stack # <<>>
    /\ Top.phase = "loop"
    /\ Coalesce_loopGoesOn
    /\ node[Top.self].end # NULL
    /\ atEnd' = TRUE
    /\ UNCHANGED <<sndx, sample, stack, rootGene, rep, gpc, visits>>

\* The handing over without self->nsamples = 0 at popnode.c:471.
PopNode_coalesce_handOver_keep(smp, self, route) ==
    LET RECURSIVE Give(_, _)
        Give(sm, k) ==
            IF k > Len(smp[self]) THEN sm
            ELSE Give(PopNode_addSample(sm, node[self].parent[route[k]],
                                        smp[self][k]), k + 1)
    IN  Give(smp, 1)

\* popnode.c:447-472: the lineages of self go to its parents, lineage k to
\* parent[route[k] - 1], and self is left with nsamples = 0.
PopNode_coalesce_handOver(smp, self, route) ==
    LET RECURSIVE Give(_, _)
        Give(sm, k) ==
            IF k > Len(smp[self]) THEN sm
            ELSE Give(PopNode_addSample(sm, node[self].parent[route[k]],
                                        smp[self][k]), k + 1)
    IN  [Give(smp, 1) EXCEPT ![self] = <<>>]

\* The parents the lineages of self may go to: parent[0] with one parent,
\* either parent at an admixture.
Routes(self) ==
    [1..Len(sample[self]) ->
        IF node[self].nparents = 1 THEN {1} ELSE {1, 2}]

\* popnode.c:438-475: the loop is over; the lineages go to the parents and
\* the call returns.  The value returned by the call on the root becomes
\* rootGene (gptree.c:69).
Coalesce_return ==
    /\ gpc = "coalesce"
    /\ stack # <<>>
    /\ Top.phase = "loop"
    /\ ~Coalesce_loopGoesOn
    /\ \E route \in Routes(Top.self) :
          LET self == Top.self
              moves == Len(sample[self]) > 0 /\ node[self].nparents > 0
              after == IF moves
                         THEN PopNode_coalesce_handOver(sample, self, route)
                         ELSE sample
              ret == IF Len(after[self]) = 1 THEN after[self][1] ELSE NullGene
          IN  IF \E q \in Segs : Len(after[q]) > MAXSAMP
                THEN /\ gpc' = "exit"
                     /\ UNCHANGED <<sample, stack, rootGene>>
                ELSE /\ sample' = after
                     /\ stack' = SubSeq(stack, 1, Len(stack) - 1)
                     /\ IF Len(stack) = 1
                          THEN rootGene' = ret /\ gpc' = "assert"
                          ELSE rootGene' = rootGene /\ gpc' = gpc
    /\ UNCHANGED <<sndx, atEnd, rep, visits>>

\* gptree.c:70-78: assert(self->rootGene), Gene_tabulate, Gene_free,
\* rootGene = NULL, and the next replicate.
Simulate_tabulate ==
    /\ gpc = "assert"
    /\ IF rootGene = NullGene
         THEN gpc' = "assertFailed" /\ UNCHANGED <<rootGene, rep>>
         ELSE /\ rootGene' = NullGene
              /\ rep' = rep + 1
              /\ gpc' = "loop"
    /\ UNCHANGED <<sndx, sample, stack, atEnd, visits>>

NextCO ==
    \/ Simulate_clear /\ RestCO
    \/ Simulate_populate
       /\ RestCO
    \/ Coalesce_children
       /\ RestCO
    \/ Coalesce_begin /\ RestCO
    \/ \E i, j \in 0..(MaxSamp - 1) :
          Coalesce_join(i, j)
          /\ RestCO
    \/ Coalesce_reachEnd
       /\ RestCO
    \/ Coalesce_return /\ RestCO
    \/ Simulate_tabulate
       /\ RestCO

SpecCO == InitCO /\ [][NextCO]_vars

\* GPTree_simulate is one thread of control: it takes its next step.
FairSpecCO == SpecCO /\ WF_vars(NextCO)

\* The elements of the sequence q.
Range(q) == {q[k] : k \in 1..Len(q)}

\* The parents of segment s.
Parents(s) == {node[s].parent[k] : k \in 1..node[s].nparents}

\* The lineages the array of segment s gained in the step.
Gained(s) == SubSeq(sample'[s], Len(sample[s]) + 1, Len(sample'[s]))

RECURSIVE SumLen(_, _)
SumLen(f, S) ==
    IF S = {} THEN 0
    ELSE LET s == CHOOSE x \in S : TRUE
         IN  Len(f[s]) + SumLen(f, S \ {s})

\* C15: when PopNode_coalesce finishes a segment that is not the root and
\* still holds lineages, every lineage is handed to exactly one parent and
\* the segment is left with zero lineages: each parent keeps what it had,
\* the lineages gained by the parents are those of the segment, each once,
\* and no other segment changes.
C15_HandOver ==
    [][(/\ gpc = "coalesce" /\ gpc' = "coalesce"
        /\ Len(stack') = Len(stack) - 1
        /\ node[Top.self].nparents > 0
        /\ sample[Top.self] # <<>>)
       => LET s == Top.self
          IN  /\ sample'[s] = <<>>
              /\ \A p \in Parents(s) :
                    /\ Len(sample'[p]) >= Len(sample[p])
                    /\ SubSeq(sample'[p], 1, Len(sample[p])) = sample[p]
              /\ UNION {Range(Gained(p)) : p \in Parents(s)}
                    = Range(sample[s])
              /\ SumLen([p \in Parents(s) |-> Gained(p)], Parents(s))
                    = Len(sample[s])
              /\ \A q \in Segs \ (Parents(s) \cup {s}) :
                    sample'[q] = sample[q]]_vars

\* All samples were put into the admixed segment, which handed a lineage to
\* each of its parents and kept none.
C15_Witness ==
    /\ gpc = "coalesce"
    /\ \A k \in 1..Len(sndx) : sndx[k] = Seg.c
    /\ sample[Seg.c] = <<>>
    /\ sample[Seg.i] # <<>>
    /\ sample[Seg.n] # <<>>

Lineages == UNION {Range(sample[s]) : s \in Segs}

\* C20: in GPTree_simulate every replicate starts from a network in which
\* the lineage list of every segment is empty before the samples are put
\* in, rootGene is NULL again when the replicate ends, and no lineage of
\* one replicate is carried into the next: during a replicate the lineages
\* are those of its own samples, each sample below exactly one lineage.
C20_FreshReplicate ==
    /\ gpc = "populate" => \A s \in Segs : sample[s] = <<>>
    /\ gpc \in {"loop", "populate", "done"} => rootGene = NullGene
    /\ gpc \in {"coalesce", "assert"} =>
          /\ UNION Lineages = 0..(Len(sndx) - 1)
          /\ \A g, h \in Lineages : g # h => g \cap h = {}
          /\ SumLen(sample, Segs) = Cardinality(Lineages)

\* The second replicate is about to put its samples in, after the first
\* left a lineage of three samples in the root.
C20_Witness ==
    /\ gpc = "populate"
    /\ rep = 1
    /\ Len(sndx) = 3
    /\ \A s \in Segs : sample[s] = <<>>

(***************************************************************************)
(*   GPTree_dup: src/gptree.c, lines 130-204, with                         *)
(*   PopNode_shiftParamPtrs and PopNode_shiftPopNodePtrs of src/popnode.c  *)
(*                                                                         *)
(* Pointers are addresses.  The PopNode at position i of old->pnv has the  *)
(* address i and the parameter at position p of the old ParStore has the   *)
(* address p, as in the other parts of the model.  The arrays of the new   *)
(* GPTree lie dOff[1] and dOff[2] above these (below, when negative):      *)
(* position i of new->pnv has the address i + dOff[1].  new.pnv, new.par   *)
(* and new.sample are indexed by position.                                 *)
(***************************************************************************)

\* The distance between two allocated blocks: the blocks do not overlap and
\* no element has the address NULL.
Gap == Cardinality(ParPtrs) + 1
Offsets == {-Gap, Gap}

\* SHIFT_PTR(ptr, d, sign): NULL stays NULL.
SHIFT_PTR(ptr, d, sign) == IF ptr = NULL THEN NULL ELSE ptr + sign * d

\* The offset and the sign GPTree_dup computes from two block addresses
\* (gptree.c:165-178).
AbsOffset(diff) == IF diff > 0 THEN <<diff, 1>> ELSE <<-diff, -1>>

\* PopNode_shiftParamPtrs(self, dp, sign)
PopNode_shiftParamPtrs(self, dp, sign) ==
    [self EXCEPT !.twoN = SHIFT_PTR(@, dp, sign),
                 !.start = SHIFT_PTR(@, dp, sign),
                 !.end = SHIFT_PTR(@, dp, sign),
                 !.mix = SHIFT_PTR(@, dp, sign)]

\* A shift of the parent pointers only.
PopNode_shiftPopNodePtrs_parents(self, dp, sign) ==
    [self EXCEPT !.parent = [k \in 1..2 |-> IF k <= self.nparents
                                              THEN SHIFT_PTR(@[k], dp, sign)
                                              ELSE @[k]]]

\* PopNode_shiftPopNodePtrs(self, dp, sign): the first nparents parent
\* pointers and the first nchildren child pointers.
PopNode_shiftPopNodePtrs(self, dp, sign) ==
    [self EXCEPT !.parent = [k \in 1..2 |-> IF k <= self.nparents
                                              THEN SHIFT_PTR(@[k], dp, sign)
                                              ELSE @[k]],
                 !.child = [k \in 1..2 |-> IF k <= self.nchildren
                                             THEN SHIFT_PTR(@[k], dp, sign)
                                             ELSE @[k]]]

\* SampNdx_shiftPtrs(self, dpop, sign)
SampNdx_shiftPtrs(sx, dpop, sign) ==
    [k \in 1..Len(sx) |-> SHIFT_PTR(sx[k], dpop, sign)]

\* SampNdx_ptrsLegal(self, start, end): every pointer lies in the array
\* whose first element has the address start and that ends before end.
SampNdx_ptrsLegal(sx, start, end) ==
    \A k \in 1..Len(sx) : start <= sx[k] /\ sx[k] < end

\* ParStore_dup: a new ParStore with the same values.
ParStore_dup(pv) == [p \in DOMAIN pv |-> pv[p]]

\* The memory both GPTrees live in, by address: the PopNodes, their sample
\* arrays and the parameters.
NodeMem(nw, d) ==
    [a \in Segs |-> node[a]] @@ [a \in {i + d[1] : i \in Segs} |-> nw.pnv[a - d[1]]]
SampleMem(nw, d) ==
    [a \in Segs |-> sample[a]]
        @@ [a \in {i + d[1] : i \in Segs} |-> nw.sample[a - d[1]]]
ParMem(nw, d) ==
    [a \in ParPtrs |-> par[a]]
        @@ [a \in {p + d[2] : p \in ParPtrs} |-> nw.par[a - d[2]]]

\* PopNode_isClear(self) in the memory nd, smp.
RECURSIVE PopNode_isClear(_, _, _)
PopNode_isClear(nd, smp, self) ==
    IF self = NULL THEN 1
    ELSE IF Len(smp[self]) > 0 THEN 0
    ELSE IF \E k \in 1..nd[self].nchildren :
                PopNode_isClear(nd, smp, nd[self].child[k]) = 0
      THEN 0
    ELSE 1

\* GPTree_equals(old, new) for two different GPTrees: the bounds, the
\* values of the ParStores and the SampNdx are compared; rootPop and
\* rootGene are not.
GPTree_equals(nw) ==
    IF nw.bnd # bnd THEN 0
    ELSE IF nw.par # par THEN 0
    ELSE IF Len(nw.sndx) # Len(sndx) THEN 0
    ELSE 1

\* The GPTree that lines 142-187 build at the offsets d: memdup of the
\* GPTree and of pnv, ParStore_dup, and the shift of every pointer.
GPTree_dup_new(d) ==
    LET par_o == AbsOffset(d[2])
        pop_o == AbsOffset(d[1])
    IN  [pnv |-> [i \in Segs |->
                    PopNode_shiftPopNodePtrs(
                        PopNode_shiftParamPtrs(node[i], par_o[1], par_o[2]),
                        pop_o[1], pop_o[2])],
         sample |-> [i \in Segs |-> sample[i]],
         rootPop |-> SHIFT_PTR(rootPop, pop_o[1], pop_o[2]),
         rootGene |-> rootGene,
         bnd |-> bnd,
         par |-> ParStore_dup(par),
         sndx |-> SampNdx_shiftPtrs(sndx, pop_o[1], pop_o[2])]

\* The state at a call of GPTree_dup: a feasible GPTree (the assertion at
\* line 133) that was never simulated, or one after GPTree_simulate, whose
\* root still holds the last lineage.
InitDU ==
    /\ node = GPTree_network
    /\ bnd = Bounds(0, MaxVal, 0, MaxVal)
    /\ par \in {pv \in ParVals :
                   /\ pv[Ptr.mix] = 0
                   /\ pv[Ptr.twoNc] = 1 /\ pv[Ptr.twoN] = 1
                   /\ PopNode_feasible(GPTree_network, pv, rootPop,
                                       Bounds(0, MaxVal, 0, MaxVal)) = 1}
    /\ sndx \in Sorted(MaxSamp, Segs)
    /\ sample \in {[i \in Segs |-> <<>>],
                   [i \in Segs |-> IF i = rootPop
                                     THEN <<0..(MaxSamp - 1)>> ELSE <<>>]}
    /\ rootGene = NullGene
    /\ new = <<>>
    /\ dOff = <<0, 0>>
    /\ dpc = "start"
    /\ stack = <<>>
    /\ atEnd = FALSE
    /\ rep = 0
    /\ gpc = "start"
    /\ visits = <<>>
    /\ nOps = 0
    /\ lastStatus = "none"
    \* the other parts of the program are at rest
    /\ todo = <<>>
    /\ acceptingJobs = TRUE
    /\ maxThreads = 0
    /\ nThreads = 0
    /\ idle = 0
    /\ lock = NoOwner
    /\ wakeWorkerQ = {}
    /\ hasTS = FALSE
    /\ mpc = "ready"
    /\ wpc = [w \in Workers |-> "unborn"]
    /\ job = [w \in Workers |-> 0]
    /\ threadState = [w \in Workers |-> 0]
    /\ nSubmitted = 0
    /\ popCount = [j \in Jobs |-> 0]
    /\ execCount = [j \in Jobs |-> 0]
    /\ tsPassed = [w \in Workers |-> {}]
    /\ tsMade = [w \in Workers |-> 0]
    /\ tsFreed = [w \in Workers |-> 0]
    /\ lastPop = <<0, 0>>
    /\ list = <<>>
    /\ appended = <<>>
    /\ nNext = 0
    /\ nextRet = -1
    /\ nextPre = 0
    /\ mixedOrder = FALSE
    /\ feasLast = <<>>
    /\ costRet = "none"
    /\ simStarted = FALSE
    /\ nreps = 0
    /\ nTasks = 0
    /\ nTasksAsked = 0
    /\ reps = <<>>
    /\ qr = <<0, 0>>
    /\ rj = 0
    /\ rpc = "start"
    /\ msc = <<>>
    /\ wgt = <<>>
    /\ wden = 1
    /\ nrows = 0
    /\ bi = 0
    /\ bpc = "start"
    /\ scLock = NoOwner
    /\ spc = <<>>
    /\ sloc = <<>>

\* GPTree_dup(old): the two tests at lines 134-141 end the program; the new
\* GPTree is built at the addresses malloc returns; the assertions at lines
\* 188 and 191 and the test at lines 192-199 follow.
GPTree_dup ==
    /\ dpc = "start"
    /\ \E d \in Offsets \X Offsets :
          LET nw == GPTree_dup_new(d)
          IN  IF rootGene # NullGene
                   \/ PopNode_isClear(node, sample, rootPop) = 0
                THEN dpc' = "abort" /\ UNCHANGED <<new, dOff>>
              ELSE IF ~SampNdx_ptrsLegal(nw.sndx, 1 + d[1],
                                         1 + d[1] + Cardinality(Segs))
                        \/ GPTree_equals(nw) = 0
                THEN dpc' = "assertFailed" /\ UNCHANGED <<new, dOff>>
              ELSE IF PopNode_feasible(NodeMem(nw, d), ParMem(nw, d),
                                       nw.rootPop, nw.bnd) = 0
                THEN dpc' = "abort" /\ UNCHANGED <<new, dOff>>
              ELSE new' = nw /\ dOff' = d /\ dpc' = "dupped"
    /\ UNCHANGED <<node, par, bnd, sndx, sample, rootGene>>

\* The parts of a memory smp of sample arrays that belong to the old and to
\* the new GPTree.
OldPart(smp) == [i \in Segs |-> smp[i]]
NewPart(smp) == [i \in Segs |-> smp[i + dOff[1]]]

\* PopNode_clear(self) in the memory nd, smp.
RECURSIVE PopNode_clear_at(_, _, _)
PopNode_clear_at(nd, smp, self) ==
    LET s1 == IF nd[self].nchildren >= 1
                THEN PopNode_clear_at(nd, smp, nd[self].child[1]) ELSE smp
        s2 == IF nd[self].nchildren >= 2
                THEN PopNode_clear_at(nd, s1, nd[self].child[2]) ELSE s1
    IN  [s2 EXCEPT ![self] = <<>>]

\* SampNdx_populateTree(sx) in the memory smp.
RECURSIVE SampNdx_populateTree_at(_, _, _)
SampNdx_populateTree_at(smp, sx, k) ==
    IF k > Len(sx) THEN smp
    ELSE SampNdx_populateTree_at(PopNode_newGene(smp, sx[k], k - 1), sx,
                                 k + 1)

\* The join of all lineages of the array a.
RECURSIVE JoinAll(_)
JoinAll(a) ==
    IF Len(a) <= 1 THEN a
    ELSE JoinAll(<<Gene_join(a[1], a[2])>> \o SubSeq(a, 3, Len(a)))

\* PopNode_coalesce(self, rng) in the memory nd, smp, for two outcomes of
\* the random draws: within a segment that has an end either all lineages
\* coalesce or none do (joins), and the lineages of an admixed segment all
\* go to parent[route - 1].
RECURSIVE PopNode_coalesce_at(_, _, _, _, _)
PopNode_coalesce_at(nd, smp, self, joins, route) ==
    LET s == nd[self]
        s1 == IF s.child[1] # NULL
                THEN PopNode_coalesce_at(nd, smp, s.child[1], joins, route)
                ELSE smp
        s2 == IF s.child[2] # NULL
                THEN PopNode_coalesce_at(nd, s1, s.child[2], joins, route)
                ELSE s1
        mine == IF s.end = NULL \/ joins THEN JoinAll(s2[self])
                ELSE s2[self]
        to == IF s.nparents = 1 THEN s.parent[1] ELSE s.parent[route]
    IN  IF Len(mine) > 0 /\ s.nparents > 0
          THEN [s2 EXCEPT ![to] = @ \o mine, ![self] = <<>>]
          ELSE [s2 EXCEPT ![self] = mine]

\* One replicate of GPTree_simulate(new, ...): PopNode_clear,
\* SampNdx_populateTree, PopNode_coalesce from new->rootPop, the assertion
\* on rootGene, Gene_free and rootGene = NULL.
New_simulate ==
    /\ dpc = "dupped"
    /\ \E joins \in BOOLEAN, route \in 1..2 :
          LET nd == NodeMem(new, dOff)
              m1 == PopNode_clear_at(nd, SampleMem(new, dOff), new.rootPop)
              m2 == SampNdx_populateTree_at(m1, new.sndx, 1)
              m3 == PopNode_coalesce_at(nd, m2, new.rootPop, joins, route)
          IN  /\ sample' = OldPart(m3)
              /\ new' = [new EXCEPT !.sample = NewPart(m3)]
              /\ dpc' = IF Len(m3[new.rootPop]) = 1 THEN "dupped"
                        ELSE "assertFailed"
    /\ UNCHANGED <<node, par, bnd, sndx, rootGene, dOff>>

\* GPTree_setParams(new, n, x)
New_setParams(x) ==
    /\ dpc = "dupped"
    /\ new' = [new EXCEPT !.par = GPTree_setParams(@, x)]
    /\ UNCHANGED <<node, par, bnd, sndx, sample, rootGene, dOff, dpc>>

RestDU ==
    UNCHANGED <<jqVars, ssVars, nOps, lastStatus, feasLast, costRet,
                simStarted, rpVars, stack, atEnd, rep, gpc, visits, bmVars,
                scVars>>

NextDU ==
    \/ GPTree_dup /\ RestDU
    \/ New_simulate /\ RestDU
    \/ \E x \in FreeVecs : New_setParams(x) /\ RestDU

SpecDU == InitDU /\ [][NextDU]_vars

\* The address of the element of the new arrays at the position of the
\* element of the old arrays that the address a designates.
SamePlace(a, d) == IF a = NULL THEN NULL ELSE a + d

MaxModels == 3      \* the largest number of models
MaxRows == 2        \* the largest number of data sets
MaxBad == 2         \* the badness values are 0..MaxBad

DBL_MAX == MaxBad
BadVals == 0..DBL_MAX

RECURSIVE Gcd(_, _)
Gcd(a, b) == IF b = 0 THEN a ELSE Gcd(b, a % b)

\* The least common multiple of 1..n: a denominator for every 1.0/nbest.
RECURSIVE LcmUpTo(_)
LcmUpTo(n) ==
    IF n <= 1 THEN 1 ELSE (LcmUpTo(n - 1) * n) \div Gcd(LcmUpTo(n - 1), n)

ShareDen == LcmUpTo(MaxModels)

\* A test that also takes a badness equal to the best one for better.
Booma_better_orEqual(badness, best) == badness <= best

\* if(badness < best)
Booma_better(badness, best) == badness < best

\* The loop at lines 753-763 over the models j..nmodels of the row r (j
\* counted from 1): <<best, jbest, nbest>> after it.
RECURSIVE Booma_scan(_, _, _)
Booma_scan(r, j, st) ==
    IF j > Len(r) THEN st
    ELSE IF Booma_better(r[j], st[1])
      THEN Booma_scan(r, j + 1, <<r[j], j, 1>>)
    ELSE IF r[j] = st[1] THEN Booma_scan(r, j + 1, <<st[1], st[2], st[3] + 1>>)
    ELSE Booma_scan(r, j + 1, st)

\* Lines 764-777: w after the data set with the badness values r.
Booma_share(wv, r) ==
    LET st == Booma_scan(r, 1, <<DBL_MAX, 1, 0>>)
        best == st[1]
        jbest == st[2]
        nbest == st[3]
    IN  IF nbest = 1
          THEN [wv EXCEPT ![jbest] = @ + ShareDen]
          ELSE [j \in 1..Len(wv) |->
                  IF j >= jbest /\ r[j] = best
                    THEN wv[j] + ShareDen \div nbest
                    ELSE wv[j]]

\* The state at line 751: w is all zero; nrows is at least 1
\* (ModSelCrit_new exits on a file without rows).
InitBM ==
    /\ \E nmodels \in 1..MaxModels : wgt = [j \in 1..nmodels |-> 0]
    /\ nrows \in 1..MaxRows
    /\ msc = <<>>
    /\ wden = ShareDen
    /\ bi = 0
    /\ bpc = "rows"
    /\ node = <<>>
    /\ par = <<>>
    /\ nOps = 0
    /\ lastStatus = "none"
    \* the other parts of the program are at rest
    /\ todo = <<>>
    /\ acceptingJobs = TRUE
    /\ maxThreads = 0
    /\ nThreads = 0
    /\ idle = 0
    /\ lock = NoOwner
    /\ wakeWorkerQ = {}
    /\ hasTS = FALSE
    /\ mpc = "ready"
    /\ wpc = [w \in Workers |-> "unborn"]
    /\ job = [w \in Workers |-> 0]
    /\ threadState = [w \in Workers |-> 0]
    /\ nSubmitted = 0
    /\ popCount = [j \in Jobs |-> 0]
    /\ execCount = [j \in Jobs |-> 0]
    /\ tsPassed = [w \in Workers |-> {}]
    /\ tsMade = [w \in Workers |-> 0]
    /\ tsFreed = [w \in Workers |-> 0]
    /\ lastPop = <<0, 0>>
    /\ list = <<>>
    /\ appended = <<>>
    /\ nNext = 0
    /\ nextRet = -1
    /\ nextPre = 0
    /\ mixedOrder = FALSE
    /\ bnd = [lo_twoN |-> 0, hi_twoN |-> 0, lo_t |-> 0, hi_t |-> 0]
    /\ feasLast = <<>>
    /\ costRet = "none"
    /\ simStarted = FALSE
    /\ nreps = 0
    /\ nTasks = 0
    /\ nTasksAsked = 0
    /\ reps = <<>>
    /\ qr = <<0, 0>>
    /\ rj = 0
    /\ rpc = "start"
    /\ sndx = <<>>
    /\ sample = <<>>
    /\ stack = <<>>
    /\ atEnd = FALSE
    /\ rootGene = {}
    /\ rep = 0
    /\ gpc = "start"
    /\ visits = <<>>
    /\ new = <<>>
    /\ dOff = <<0, 0>>
    /\ dpc = "start"
    /\ scLock = NoOwner
    /\ spc = <<>>
    /\ sloc = <<>>

\* One pass of the loop over the data sets (lines 752-778): the row r is
\* what ModSelCrit_badness returns for data set i and the models.
Booma_row(r) ==
    /\ bpc = "rows"
    /\ bi < nrows
    /\ Len(r) = Len(wgt)
    /\ msc' = r
    /\ IF Booma_scan(r, 1, <<DBL_MAX, 1, 0>>)[3] >= 1
         THEN wgt' = Booma_share(wgt, r) /\ bi' = bi + 1 /\ bpc' = bpc
         ELSE bpc' = "assertFailed" /\ UNCHANGED <<wgt, bi>>
    /\ UNCHANGED <<wden, nrows>>

\* Lines 779-780: w[j] /= nrows for every model.
Booma_divide ==
    /\ bpc = "rows"
    /\ bi = nrows
    /\ wden' = wden * nrows
    /\ bpc' = "done"
    /\ UNCHANGED <<msc, wgt, nrows, bi>>

RestBM ==
    UNCHANGED <<jqVars, ssVars, pnVars, feVars, rpVars, coVars, duVars,
                scVars>>

NextBM ==
    \/ \E n \in 1..MaxModels : \E r \in [1..n -> BadVals] :
          Booma_row(r) /\ RestBM
    \/ Booma_divide /\ RestBM

SpecBM == InitBM /\ [][NextBM]_vars

\* The models of the row r whose badness is the minimum of the row.
Best(r) == {j \in 1..Len(r) : \A k \in 1..Len(r) : r[j] <= r[k]}

RECURSIVE SumSeq(_)
SumSeq(q) == IF q = <<>> THEN 0 ELSE Head(q) + SumSeq(Tail(q))

\* C22: for every data set, each model whose badness equals the minimum
\* over all models gains the weight 1/nbest, nbest being the number of such
\* models, and every other model gains nothing, wherever the tied models
\* stand; so each data set adds 1 to the sum of the weights, and the final
\* weights sum to 1.
C22_TiedShare ==
    /\ [][bi' = bi + 1 =>
            /\ \A j \in 1..Len(wgt) :
                  (wgt'[j] - wgt[j]) * Cardinality(Best(msc'))
                      = IF j \in Best(msc') THEN ShareDen ELSE 0
            /\ SumSeq(wgt') = SumSeq(wgt) + ShareDen]_vars
    /\ [](bpc = "rows" => SumSeq(wgt) = bi * ShareDen)
    /\ [](bpc = "done" => SumSeq(wgt) = wden)
    /\ [](bpc # "assertFailed")

\* The weights are final, and in the last data set the second and third of
\* three models tied for the minimum while the first was worse, which was
\* the best model of another data set.
C22_Witness ==
    /\ bpc = "done"
    /\ Len(wgt) = 3
    /\ msc[2] = msc[3] /\ msc[1] > msc[2]
    /\ wgt[1] > 0
    /\ wgt[2] = wgt[3] /\ wgt[2] > 0
(***************************************************************************)
(*          More properties of GPTree_simulate (SpecCO)                    *)
(***************************************************************************)

\* A step within one call of PopNode_coalesce that changes the lineages: a
\* coalescent event.
CoalescentEvent == stack # <<>> /\ stack' = stack /\ sample' # sample

\* The array a without the places in the set K.
Without(a, K) ==
    LET keep == {k \in 1..Len(a) : k \notin K}
        RECURSIVE Take(_)
        Take(k) == IF k > Len(a) THEN <<>>
                   ELSE IF k \in keep THEN <<a[k]>> \o Take(k + 1)
                   ELSE Take(k + 1)
    IN  Take(1)

\* The bag of the elements of the array a.
BagOf(a) == [g \in Range(a) |-> Cardinality({k \in 1..Len(a) : a[k] = g})]

\* C24: a coalescent event in a segment takes two places i < j of its
\* lineages, puts the join of the two (the union of their tipIds) at place
\* i, removes the lineage at j, lowers nsamples by exactly one, leaves every
\* other lineage as it was (those before j at their places), leaves the
\* other segments alone and keeps the places 0..nsamples-1 non-null.
C24_CoalescentEvent ==
    [][CoalescentEvent =>
        LET s == Top.self
            a == sample[s]
            b == sample'[s]
        IN  /\ \A q \in Segs \ {s} : sample'[q] = sample[q]
            /\ Len(b) = Len(a) - 1
            /\ \A k \in 1..Len(b) : b[k] # NullGene
            /\ \E i, j \in 1..Len(a) :
                  /\ i < j
                  /\ b[i] = a[i] \cup a[j]
                  /\ \A k \in 1..(j - 1) : k # i => b[k] = a[k]
                  /\ BagOf(Without(b, {i})) = BagOf(Without(a, {i, j}))
      ]_vars

\* Of three lineages in one segment the first two were joined and the third
\* was moved into the place of the second.
C24_Witness ==
    /\ gpc = "coalesce"
    /\ stack # <<>>
    /\ sample[Top.self] = <<{0, 1}, {2}>>

\* The segments with a call of PopNode_coalesce in progress.
OnStack == {stack[f].self : f \in 1..Len(stack)}

\* C25: within one replicate the coalescent loop of a segment starts only
\* when the calls of PopNode_coalesce on all its children have returned;
\* from then on no lineage is added to the segment; and a later call on the
\* same segment (an admixed segment is reached through both parents) moves
\* no lineage.
C25_ChildrenFirst ==
    [][/\ \A s \in Segs :
            (gpc = "coalesce" /\ visits'[s] = visits[s] + 1) =>
                \A k \in 1..node[s].nchildren :
                    /\ visits[node[s].child[k]] >= 1
                    /\ node[s].child[k] \notin OnStack
       /\ \A s \in Segs :
            (gpc = "coalesce" /\ visits[s] >= 1) =>
                Len(sample'[s]) <= Len(sample[s])
       /\ (gpc = "coalesce" /\ stack # <<>> /\ Top.phase = "loop"
             /\ visits[Top.self] >= 2) => sample' = sample
      ]_vars

\* The admixed segment is visited for the second time, through its native
\* parent, which holds a lineage that came from it at the first visit.
C25_Witness ==
    /\ gpc = "coalesce"
    /\ stack # <<>>
    /\ Top.self = Seg.c /\ Top.phase = "loop"
    /\ visits[Seg.c] = 2
    /\ sample[Seg.n] # <<>>
    /\ sample[Seg.c] = <<>>

\* The places that hold a lineage: <<segment, place in its sample array>>.
Held_at == {pl \in Segs \X (1..MaxSamp) : pl[2] <= Len(sample[pl[1]])}

\* The union of the tipIds of all samples of the SampNdx.
Universe == 0..(Len(sndx) - 1)

\* C28: in every state of a replicate, from SampNdx_populateTree to the
\* return of the root lineage, the tipIds of the lineages the segments hold
\* are non-zero and pairwise disjoint and their union is the union of all
\* sample bits; so the lineage returned at the root carries exactly that
\* union.
C28_Partition ==
    /\ gpc \in {"coalesce", "assert"} =>
          /\ \A pl \in Held_at : sample[pl[1]][pl[2]] # {}
          /\ \A pl, ql \in Held_at :
                pl # ql => sample[pl[1]][pl[2]] \cap sample[ql[1]][ql[2]] = {}
          /\ UNION {sample[pl[1]][pl[2]] : pl \in Held_at} = Universe
    /\ gpc = "assert" => rootGene = Universe

\* In the middle of a replicate two segments hold lineages, one of them a
\* lineage that joins two samples.
C28_Witness ==
    /\ gpc = "coalesce"
    /\ Len(sndx) = MaxSamp
    /\ \E pl, ql \in Held_at :
          /\ pl[1] # ql[1]
          /\ Cardinality(sample[pl[1]][pl[2]]) = 2

(***************************************************************************)
(*          Concurrent callers of one SimSched: src/simsched.c             *)
(*                                                                         *)
(* MaxCallers threads share one schedule and call SimSched_append, the     *)
(* getters and SimSched_next in any order.  A step is one access to        *)
(* self->list or one operation on self->lock.                              *)
(***************************************************************************)

MaxCallers == 2   \* number of threads that share the schedule

Callers == 1..MaxCallers

\* No caller has ended the process.
Running == \A c \in Callers : spc[c] # "exited"

\* What a caller keeps between the steps of a call: the stage it appends,
\* the list as its own Stage_popHead left it, and the value it returned.
NoCall == [arg |-> <<>>, left |-> <<>>, ret |-> -1]

\* SimSched_new, and no caller inside a call.
InitSC ==
    /\ list = <<>>
    /\ appended = <<>>
    /\ nNext = 0
    /\ nextRet = -1
    /\ nextPre = 0
    /\ mixedOrder = FALSE
    /\ scLock = NoOwner
    /\ spc = [c \in Callers |-> "idle"]
    /\ sloc = [c \in Callers |-> NoCall]
    \* the other parts of the program are at rest
    /\ todo = <<>>
    /\ acceptingJobs = TRUE
    /\ maxThreads = 0
    /\ nThreads = 0
    /\ idle = 0
    /\ lock = NoOwner
    /\ wakeWorkerQ = {}
    /\ hasTS = FALSE
    /\ mpc = "ready"
    /\ wpc = [w \in Workers |-> "unborn"]
    /\ job = [w \in Workers |-> 0]
    /\ threadState = [w \in Workers |-> 0]
    /\ nSubmitted = 0
    /\ popCount = [j \in Jobs |-> 0]
    /\ execCount = [j \in Jobs |-> 0]
    /\ tsPassed = [w \in Workers |-> {}]
    /\ tsMade = [w \in Workers |-> 0]
    /\ tsFreed = [w \in Workers |-> 0]
    /\ lastPop = <<0, 0>>
    /\ node = <<>>
    /\ par = <<>>
    /\ nOps = 0
    /\ lastStatus = "none"
    /\ bnd = [lo_twoN |-> 0, hi_twoN |-> 0, lo_t |-> 0, hi_t |-> 0]
    /\ feasLast = <<>>
    /\ costRet = "none"
    /\ simStarted = FALSE
    /\ nreps = 0
    /\ nTasks = 0
    /\ nTasksAsked = 0
    /\ reps = <<>>
    /\ qr = <<0, 0>>
    /\ rj = 0
    /\ rpc = "start"
    /\ sndx = <<>>
    /\ sample = <<>>
    /\ stack = <<>>
    /\ atEnd = FALSE
    /\ rootGene = {}
    /\ rep = 0
    /\ gpc = "start"
    /\ visits = <<>>
    /\ new = <<>>
    /\ dOff = <<0, 0>>
    /\ dpc = "start"
    /\ msc = <<>>
    /\ wgt = <<>>
    /\ wden = 1
    /\ nrows = 0
    /\ bi = 0
    /\ bpc = "start"

\* A caller begins a call of SimSched_append.
SimSched_append_call(c, nOptItr, nSimReps) ==
    /\ Running
    /\ spc[c] = "idle"
    /\ Len(appended)
         + Cardinality({d \in Callers : spc[d] \in {"ap_lock", "ap_body"}})
           < MaxStages
    /\ spc' = [spc EXCEPT ![c] = "ap_lock"]
    /\ sloc' = [sloc EXCEPT ![c] = [NoCall EXCEPT !.arg = <<nOptItr, nSimReps>>]]
    /\ UNCHANGED <<list, appended, nNext, scLock>>

\* A caller begins a call of SimSched_getSimReps or SimSched_getOptItr.
SimSched_get_call(c) ==
    /\ Running
    /\ spc[c] = "idle"
    /\ \E to \in {"gs_lock", "go_lock"} : spc' = [spc EXCEPT ![c] = to]
    /\ sloc' = [sloc EXCEPT ![c] = NoCall]
    /\ UNCHANGED <<list, appended, nNext, scLock>>

\* A caller begins a call of SimSched_next.
SimSched_next_call(c) ==
    /\ Running
    /\ spc[c] = "idle"
    /\ nNext < MaxNext
    /\ nNext' = nNext + 1
    /\ spc' = [spc EXCEPT ![c] = "nx_test"]
    /\ sloc' = [sloc EXCEPT ![c] = NoCall]
    /\ UNCHANGED <<list, appended, scLock>>

\* The position after pthread_mutex_lock(&self->lock).
AfterLock(pc) ==
    CASE pc = "ap_lock" -> "ap_body"
      [] pc = "gs_lock" -> "gs_body"
      [] pc = "go_lock" -> "go_body"
      [] pc = "nx_lock" -> "nx_pop"

\* pthread_mutex_lock(&self->lock) in any of the four functions.
SimSched_lock(c) ==
    /\ Running
    /\ spc[c] \in {"ap_lock", "gs_lock", "go_lock", "nx_lock"}
    /\ scLock = NoOwner
    /\ scLock' = c
    /\ spc' = [spc EXCEPT ![c] = AfterLock(spc[c])]
    /\ UNCHANGED <<list, appended, nNext, sloc>>

\* self->list = Stage_append(self->list, nOptItr, nSimReps); unlock.
SimSched_append_body(c) ==
    /\ Running
    /\ spc[c] = "ap_body"
    /\ list' = Stage_append(list, sloc[c].arg)
    /\ appended' = Append(appended, sloc[c].arg)
    /\ scLock' = NoOwner
    /\ spc' = [spc EXCEPT ![c] = "idle"]
    /\ sloc' = [sloc EXCEPT ![c] = NoCall]
    /\ UNCHANGED nNext

\* nSimReps = Stage_getSimReps(self->list), or nOptItr =
\* Stage_getOptItr(self->list); unlock; return the value.  On an empty list
\* Stage_get* ends the process with exit(EXIT_FAILURE).
SimSched_get_body(c) ==
    /\ Running
    /\ spc[c] \in {"gs_body", "go_body"}
    /\ LET v == IF spc[c] = "gs_body" THEN Stage_getSimReps(list)
                                     ELSE Stage_getOptItr(list)
       IN  IF v = NullStage
             THEN /\ spc' = [spc EXCEPT ![c] = "exited"]
                  /\ UNCHANGED <<scLock, sloc>>
             ELSE /\ spc' = [spc EXCEPT ![c] = "idle"]
                  /\ scLock' = NoOwner
                  /\ sloc' = [sloc EXCEPT ![c].ret = v]
    /\ UNCHANGED <<list, appended, nNext>>

\* if(self->list == NULL) return 1;  made before the mutex is locked.
SimSched_next_test(c) ==
    /\ Running
    /\ spc[c] = "nx_test"
    /\ IF list = <<>>
         THEN /\ spc' = [spc EXCEPT ![c] = "idle"]
              /\ sloc' = [sloc EXCEPT ![c].ret = 1]
         ELSE /\ spc' = [spc EXCEPT ![c] = "nx_lock"]
              /\ UNCHANGED sloc
    /\ UNCHANGED <<list, appended, nNext, scLock>>

\* self->list = Stage_popHead(self->list); unlock.
SimSched_next_pop(c) ==
    /\ Running
    /\ spc[c] = "nx_pop"
    /\ list' = Stage_popHead(list)
    /\ sloc' = [sloc EXCEPT ![c].left = list']
    /\ scLock' = NoOwner
    /\ spc' = [spc EXCEPT ![c] = "nx_ret"]
    /\ UNCHANGED <<appended, nNext>>

\* if(self->list) return 1; return 0;  made after the mutex is unlocked.
SimSched_next_return(c) ==
    /\ Running
    /\ spc[c] = "nx_ret"
    /\ sloc' = [sloc EXCEPT ![c].ret = IF list # <<>> THEN 1 ELSE 0]
    /\ spc' = [spc EXCEPT ![c] = "idle"]
    /\ UNCHANGED <<list, appended, nNext, scLock>>

RestSC ==
    UNCHANGED <<jqVars, pnVars, feVars, rpVars, coVars, duVars, bmVars,
                nextRet, nextPre, mixedOrder>>

NextSC ==
    \/ \E c \in Callers, o \in OptItrs, r \in SimReps :
          SimSched_append_call(c, o, r) /\ RestSC
    \/ \E c \in Callers : SimSched_get_call(c) /\ RestSC
    \/ \E c \in Callers : SimSched_next_call(c) /\ RestSC
    \/ \E c \in Callers : SimSched_lock(c) /\ RestSC
    \/ \E c \in Callers : SimSched_append_body(c) /\ RestSC
    \/ \E c \in Callers : SimSched_get_body(c) /\ RestSC
    \/ \E c \in Callers : SimSched_next_test(c) /\ RestSC
    \/ \E c \in Callers : SimSched_next_pop(c) /\ RestSC
    \/ \E c \in Callers : SimSched_next_return(c) /\ RestSC

SpecSC == InitSC /\ [][NextSC]_vars

\* C27: every read and write of the stage list by SimSched_append, the
\* getters and SimSched_next is made by the owner of the mutex of the
\* schedule; each SimSched_next removes one stage or none; and the value
\* SimSched_next returns after its Stage_popHead tells whether the list it
\* left behind itself has a stage.
C27_UnderOwnMutex ==
    [][\A c \in Callers :
          /\ (spc[c] \in {"ap_body", "gs_body", "go_body", "nx_test",
                          "nx_pop", "nx_ret"}
                 /\ spc'[c] # spc[c]) => scLock = c
          /\ (spc[c] = "nx_pop" /\ spc'[c] = "nx_ret") =>
                 Len(list) - Len(list') \in {0, 1}
          /\ (spc[c] = "nx_ret" /\ spc'[c] = "idle") =>
                 sloc'[c].ret = (IF sloc[c].left # <<>> THEN 1 ELSE 0)
      ]_vars
====
